---- MODULE Spec2Model ----
(***************************************************************************)
(* Model of the Hetzner Robot API client (RobotClient): the admission      *)
(* queue (enqueue / run / processQueue) and the retry loop of doRequest.   *)
(* One task = one call of RobotClient.request(path, options).              *)
(* Model of the Hetzner Cloud API client (CloudClient): request, the       *)
(* rate-limit snapshot, requestAll and pollAction.                         *)
(***************************************************************************)
EXTENDS Integers, Sequences, FiniteSets, TLC

\* ---------------------------------------------------------------- bounds
MaxTasks == 4          \* request() calls made on the client (Spec)
FairTasks == 3         \* request() calls made on the client (FairSpec)
ReqTasks == 1          \* request() calls made on the client (ReqSpec)
MaxCalls == 2          \* CloudClient.request() calls (CloudSpec)
MaxPageCalls == 4      \* requests one requestAll() may send (PageSpec)
MaxPage == 3           \* largest next_page the server answers with (PageSpec)
MaxTimeout == 20000    \* largest explicit timeoutMs handed to pollAction
MaxFetchMs == 200      \* longest time one fetch of pollAction takes
MaxDepth == 1          \* wrappers put around the flat values of a request body

\* ------------------------------------------------------ program constants
maxRetries == 3
maxConcurrent == 2
timeout == 30000

Tasks == 1 .. MaxTasks
Null == "null"
\* A response header: absent, or present with a text of decimal digits
\* (num is the number the text denotes).
NoHeader == [present |-> FALSE, text |-> <<>>, num |-> 0]
Header(text, num) == [present |-> TRUE, text |-> text, num |-> num]
\* response.headers.get('Retry-After') gave null
NoHint == NoHeader

\* ------------------------------------------------------ fetch() outcomes
\* A response body: parsable JSON or not, with or without an `error` member.
JsonBody(v) == [json |-> TRUE, error |-> FALSE, code |-> Null, message |-> Null, value |-> v]
ErrBody(c, m) == [json |-> TRUE, error |-> TRUE, code |-> c, message |-> m, value |-> Null]
NoJson == [json |-> FALSE, error |-> FALSE, code |-> Null, message |-> Null, value |-> Null]

Response(status, retryAfter, cl0, body) ==
    [kind |-> "response", status |-> status, retryAfter |-> retryAfter,
     contentLength0 |-> cl0, body |-> body, msg |-> Null]
\* fetch() rejected because controller.abort() fired after `timeout` ms
AbortError == [kind |-> "abort", status |-> 0, retryAfter |-> NoHint,
               contentLength0 |-> FALSE, body |-> NoJson, msg |-> "AbortError"]
\* fetch() rejected for any other reason (connection error)
FetchFailed(m) == [kind |-> "neterr", status |-> 0, retryAfter |-> NoHint,
                   contentLength0 |-> FALSE, body |-> NoJson, msg |-> m]
NoOutcome == [kind |-> "none", status |-> 0, retryAfter |-> NoHint,
              contentLength0 |-> FALSE, body |-> NoJson, msg |-> Null]

\* Outcomes the server and the network can produce for one attempt.
Outcomes ==
    { Response(200, NoHint, FALSE, JsonBody("v1")),
      Response(200, NoHint, FALSE, NoJson),
      Response(204, NoHint, FALSE, NoJson),
      Response(200, NoHint, TRUE, NoJson),
      Response(429, NoHint, FALSE, NoJson),
      Response(429, Header(<<2>>, 2), FALSE, NoJson),
      Response(403, Header(<<0>>, 0), FALSE, NoJson),
      Response(403, NoHint, FALSE, NoJson),
      Response(500, NoHint, FALSE, ErrBody("c1", "m1")),
      Response(500, NoHint, FALSE, NoJson),
      Response(404, NoHint, FALSE, ErrBody("c1", Null)),
      Response(404, NoHint, FALSE, JsonBody("v1")),
      AbortError,
      FetchFailed("e1"),
      FetchFailed("e2") }
\* The outcomes used when several requests share the queue.
QueueOutcomes ==
    { Response(200, NoHint, FALSE, JsonBody("v1")),
      Response(429, NoHint, FALSE, NoJson),
      FetchFailed("e1") }
\* The outcomes used under fairness: a success and a retryable failure.
FairOutcomes ==
    { Response(200, NoHint, FALSE, JsonBody("v1")),
      FetchFailed("e1") }
\* Math.random() * 1000 lies in [0, 1000)
Jitters == {0, 999}
QueueJitters == {0}

statusText(status) ==
    CASE status = 500 -> "Internal Server Error"
      [] status = 404 -> "Not Found"
      [] OTHER -> "status text"

\* ------------------------------------------------ results of doRequest
NoResult == [kind |-> "none", status |-> 0, code |-> Null, message |-> <<>>,
             path |-> 0, value |-> Null]
Returned(v) == [kind |-> "ok", status |-> 0, code |-> Null, message |-> <<>>,
                path |-> 0, value |-> v]
RobotApiError(status, code, message, path) ==
    [kind |-> "RobotApiError", status |-> status, code |-> code,
     message |-> message, path |-> path, value |-> Null]

VARIABLES
    requestQueue,     \* pending run closures, by task, oldest first
    activeRequests,
    st,               \* per task: idle, pending, fetch, sleep, settled, done
    attempt,          \* doRequest: loop counter
    lastError,        \* doRequest: message of the last recorded error, or Null
    delay,            \* doRequest: the delay being slept
    fnResult,         \* what the task's doRequest returned or threw
    promise,          \* what the caller of request() received
    settles,          \* number of resolve/reject calls on the caller's promise
    sends,            \* fetch() calls made by the task's doRequest so far
    sleeps,           \* sleep() calls made by the task's doRequest so far
    rateLimited,      \* 429/403 responses the task's doRequest received so far
    lastOutcome,      \* outcome of the task's latest fetch(), NoOutcome in flight
    submitted,        \* number of request() calls so far
    started,          \* tasks in the order run() was entered
    waited            \* tasks that were pushed on requestQueue

robotVars == <<requestQueue, activeRequests, st, attempt, lastError, delay, fnResult,
               promise, settles, sends, sleeps, rateLimited, lastOutcome, submitted,
               started, waited>>

RobotInit ==
    /\ requestQueue = <<>>
    /\ activeRequests = 0
    /\ st = [t \in Tasks |-> "idle"]
    /\ attempt = [t \in Tasks |-> 0]
    /\ lastError = [t \in Tasks |-> Null]
    /\ delay = [t \in Tasks |-> 0]
    /\ fnResult = [t \in Tasks |-> NoResult]
    /\ promise = [t \in Tasks |-> NoResult]
    /\ settles = [t \in Tasks |-> 0]
    /\ sends = [t \in Tasks |-> 0]
    /\ sleeps = [t \in Tasks |-> 0]
    /\ rateLimited = [t \in Tasks |-> 0]
    /\ lastOutcome = [t \in Tasks |-> NoOutcome]
    /\ submitted = 0
    /\ started = <<>>
    /\ waited = {}

\* ------------------------------------------------------------ CloudClient
Calls == 1 .. MaxCalls

RateHeaders(l, r, s) == [limit |-> l, remaining |-> r, reset |-> s]
NoRateHeaders == RateHeaders(NoHeader, NoHeader, NoHeader)
H1000 == Header(<<1, 0, 0, 0>>, 1000)
H7 == Header(<<7>>, 7)
RateHeaderSets ==
    { NoRateHeaders,
      RateHeaders(H1000, Header(<<5, 0>>, 50), H7),
      RateHeaders(H1000, Header(<<9, 9>>, 99), H7),
      RateHeaders(H1000, Header(<<1, 0, 0>>, 100), H7),
      RateHeaders(H1000, Header(<<5, 0, 0>>, 500), H7),
      RateHeaders(H1000, Header(<<0>>, 0), H7),
      RateHeaders(H1000, Header(<<5, 0>>, 50), NoHeader),
      RateHeaders(H1000, Header(<<>>, 0), H7) }

CloudResponse(status, cl0, body, rate) ==
    [kind |-> "response", status |-> status, contentLength0 |-> cl0,
     body |-> body, rate |-> rate, msg |-> Null]
CloudAbort == [kind |-> "abort", status |-> 0, contentLength0 |-> FALSE,
               body |-> NoJson, rate |-> NoRateHeaders, msg |-> "AbortError"]
CloudFetchFailed(m) == [kind |-> "neterr", status |-> 0, contentLength0 |-> FALSE,
                        body |-> NoJson, rate |-> NoRateHeaders, msg |-> m]
\* Outcomes of one fetch() of CloudClient.request.
CloudOutcomes ==
    { CloudResponse(200, FALSE, JsonBody("v1"), r) : r \in RateHeaderSets }
    \cup { CloudResponse(429, FALSE, ErrBody("rate_limit_exceeded", "m1"), r) :
              r \in {NoRateHeaders, RateHeaders(H1000, Header(<<0>>, 0), H7)} }
    \cup { CloudResponse(204, FALSE, NoJson, NoRateHeaders),
           CloudResponse(200, TRUE, NoJson, NoRateHeaders),
           CloudResponse(200, FALSE, NoJson, NoRateHeaders),
           CloudResponse(500, FALSE, NoJson, RateHeaders(H1000, Header(<<9, 9>>, 99), H7)),
           CloudAbort,
           CloudFetchFailed("e1") }

\* RateLimitInfo | null
NoSnapshot == [held |-> FALSE, limit |-> 0, remaining |-> 0, reset |-> 0]
Snapshot(l, r, s) == [held |-> TRUE, limit |-> l, remaining |-> r, reset |-> s]

\* results of CloudClient.request
HetznerApiError(status, code, message) ==
    [kind |-> "HetznerApiError", status |-> status, code |-> code,
     message |-> message, path |-> 0, value |-> Null]
Rethrown(m) == [kind |-> "Error", status |-> 0, code |-> Null,
                message |-> <<m>>, path |-> 0, value |-> Null]
NoWarning == <<>>

VARIABLES
    lastRateLimit,    \* CloudClient.lastRateLimit
    cst,              \* per call of CloudClient.request: idle, fetch, done
    cresult,          \* what the call returned or threw
    csends,           \* fetch() calls made by the call
    responses,        \* number of responses CloudClient.request has received
    lastHeaders,      \* rate-limit headers of the latest response received
    coutcome,         \* outcome of the call's fetch(), NoOutcome before it settles
    warning,          \* what the latest rateLimitWarning() returned
    warnedOn          \* lastRateLimit when rateLimitWarning() was called

cloudVars == <<lastRateLimit, cst, cresult, csends, responses, lastHeaders,
               coutcome, warning, warnedOn>>

CloudInit ==
    /\ lastRateLimit = NoSnapshot
    /\ cst = [c \in Calls |-> "idle"]
    /\ cresult = [c \in Calls |-> NoResult]
    /\ csends = [c \in Calls |-> 0]
    /\ responses = 0
    /\ lastHeaders = NoRateHeaders
    /\ coutcome = [c \in Calls |-> NoOutcome]
    /\ warning = NoWarning
    /\ warnedOn = NoSnapshot

\* ------------------------------------------------ CloudClient.requestAll
perPage == 50
\* meta.pagination.next_page null or absent
NoPage == 0
\* the items the server holds on page p when that page has k of them
Items(p, k) == [i \in 1 .. k |-> p * 10 + i]
\* A decoded list response: result[key] (when hasItems) and next_page.
PageBody(hasItems, items, next) ==
    [kind |-> "page", hasItems |-> hasItems, items |-> items, next |-> next,
     error |-> NoResult]
PageFailure(e) ==
    [kind |-> "failure", hasItems |-> FALSE, items |-> <<>>, next |-> NoPage,
     error |-> e]
\* the headers every list response carries
PageRate == RateHeaders(H1000, Header(<<5, 0, 0>>, 500), H7)
\* What this.request can give for page p.
PageOutcomes(p) ==
    { PageBody(TRUE, Items(p, k), n) : k \in {0, 2}, n \in 0 .. MaxPage }
    \cup { PageBody(FALSE, <<>>, n) : n \in 0 .. MaxPage }
    \cup { PageFailure(HetznerApiError(500, "unknown", <<"Internal Server Error">>)) }

\* results of requestAll
NoItems == [kind |-> "none", items |-> <<>>, error |-> NoResult]
AllItems(items) == [kind |-> "ok", items |-> items, error |-> NoResult]
Rejected(e) == [kind |-> "rejected", items |-> <<>>, error |-> e]

VARIABLES
    pgSt,             \* requestAll: idle, fetch, done
    page,             \* requestAll: page
    allItems,         \* requestAll: allItems
    pgResult,         \* what requestAll returned or threw
    pagesRequested,   \* the {page, per_page} params of the requests sent, in order
    served            \* the bodies received, each with the page it answers

pageVars == <<pgSt, page, allItems, pgResult, pagesRequested, served>>

PageInit ==
    /\ pgSt = "idle"
    /\ page = 0
    /\ allItems = <<>>
    /\ pgResult = NoItems
    /\ pagesRequested = <<>>
    /\ served = <<>>

\* ------------------------------------------------ CloudClient.pollAction
initialDelay == 1000
delayCap == 5000
ActionIds == {7, 42}
\* timeoutMs arguments
Timeouts == {-1, 0, 1000, MaxTimeout}
\* Date.now() when pollAction is called
CallTimes == {0, 2000}
FetchDurations == {0, MaxFetchMs}
NoAction == [id |-> 0, status |-> "none"]
Action(id, status) == [id |-> id, status |-> status]
\* What this.request('/actions/<id>') can give: a decoded action, or a throw.
Fetched(a) == [kind |-> "action", action |-> a, error |-> NoResult, responded |-> TRUE]
FetchThrew(e, responded) ==
    [kind |-> "failure", action |-> NoAction, error |-> e, responded |-> responded]
PollOutcomes(id) ==
    { Fetched(Action(id, s)) : s \in {"running", "success", "error"} }
    \cup { FetchThrew(HetznerApiError(429, "rate_limit_exceeded", <<"m1">>), TRUE),
           FetchThrew(HetznerApiError(0, "TIMEOUT",
                         <<"Request timed out after", ToString(timeout), "ms">>), FALSE),
           FetchThrew(Rethrown("e1"), FALSE) }
\* results of pollAction
NoPoll == [kind |-> "none", action |-> NoAction, error |-> NoResult]
PollReturned(a) == [kind |-> "ok", action |-> a, error |-> NoResult]
PollRejected(e) == [kind |-> "rejected", action |-> NoAction, error |-> e]
PollTimeout(id, tmo) ==
    HetznerApiError(0, "POLL_TIMEOUT",
        <<"Action " \o ToString(id) \o " did not complete within "
            \o ToString(tmo) \o "ms">>)

VARIABLES
    plSt,             \* pollAction: idle, fetch, sleep, done
    now,              \* Date.now()
    start,            \* pollAction: start
    pdelay,           \* pollAction: delay
    actionId,         \* pollAction: actionId
    timeoutMs,        \* pollAction: timeoutMs
    plResult,         \* what pollAction returned or threw
    fetchedAt,        \* Date.now() - start when each fetch was started, in order
    plSleeps,         \* the delays slept, in order
    observed,         \* what each fetch gave, in order
    lastFetchMs       \* how long the latest fetch took

pollVars == <<plSt, now, start, pdelay, actionId, timeoutMs, plResult, fetchedAt,
              plSleeps, observed, lastFetchMs>>

PollInit ==
    /\ plSt = "idle"
    /\ now = 0
    /\ start = 0
    /\ pdelay = 0
    /\ actionId = 0
    /\ timeoutMs = 0
    /\ plResult = NoPoll
    /\ fetchedAt = <<>>
    /\ plSleeps = <<>>
    /\ observed = <<>>
    /\ lastFetchMs = 0

\* --------------------------------------------- RobotClient.flattenFormData
\* A body value: its typeof/null/array kind, String(value) for a scalar, and
\* Object.entries(value) for an object or an array.
Str(s) == [tag |-> "string", text |-> s, kids |-> <<>>]
Num(n) == [tag |-> "number", text |-> ToString(n), kids |-> <<>>]
Bool(b) == [tag |-> "boolean", text |-> IF b THEN "true" ELSE "false", kids |-> <<>>]
NullV == [tag |-> "null", text |-> "null", kids |-> <<>>]
Undef == [tag |-> "undefined", text |-> "undefined", kids |-> <<>>]
P(k, v) == [k |-> k, v |-> v]
Obj(props) == [tag |-> "object", text |-> "", kids |-> props]
RECURSIVE indexed(_, _)
indexed(items, from) ==
    IF items = <<>> THEN <<>>
    ELSE <<P(ToString(from), Head(items))>> \o indexed(Tail(items), from + 1)
Arr(items) == [tag |-> "array", text |-> "", kids |-> indexed(items, 0)]

Scalars == {Str("accept"), Num(1), Bool(TRUE), NullV, Undef}
\* scalars, and objects and arrays of at most two scalars
Flat ==
    Scalars \cup {Arr(<<>>), Obj(<<>>)}
    \cup { Arr(<<x>>) : x \in Scalars }
    \cup { Arr(<<x, y>>) : x \in Scalars, y \in Scalars }
    \cup { Obj(<<P("a", x)>>) : x \in Scalars }
    \cup { Obj(<<P("a", x), P("b", y)>>) : x \in Scalars, y \in Scalars }
    \cup { Obj(<<P("b", x), P("a", y)>>) : x \in Scalars, y \in Scalars }
\* one more level of nesting around the values of V
Wrap(V) ==
    { Arr(<<v>>) : v \in V }
    \cup { Arr(<<Num(1), v>>) : v \in V }
    \cup { Obj(<<P("a", v)>>) : v \in V }
    \cup { Obj(<<P("a", v), P("b", Num(1))>>) : v \in V }
    \cup { Obj(<<P("b", v), P("a", Num(1))>>) : v \in V }
RECURSIVE Nested(_)
Nested(d) == IF d = 0 THEN Flat ELSE Nested(d - 1) \cup Wrap(Nested(d - 1))
\* the body of the comment above flattenFormData
Example == Obj(<<P("rules", Obj(<<P("input", Arr(<<Obj(<<P("action", Str("accept"))>>)>>))>>))>>)
\* Request bodies: objects whose own property names are the literals of the
\* callers, with any JSON value below them.
FormBodies ==
    { Obj(<<P("a", v)>>) : v \in Nested(MaxDepth) }
    \cup { Obj(<<P("b", v), P("a", s)>>) : v \in Nested(MaxDepth), s \in {Num(1), NullV} }
    \cup { Example, Obj(<<>>) }

VARIABLES
    formInput,        \* doRequest: body
    formData,         \* doRequest: formData, the pairs appended so far
    encoded           \* flattenFormData(formData, body) has run

formVars == <<formInput, formData, encoded>>

\* no body handed to doRequest yet
FormIdle ==
    /\ formInput = Obj(<<>>)
    /\ formData = <<>>
    /\ encoded = FALSE

\* --------------------------------------------- configuration and tools
MaxActions == 2
MaxListPages == 2

\* A variable of process.env: undefined, or a string.
Unset == [set |-> FALSE, value |-> ""]
Set(v) == [set |-> TRUE, value |-> v]
\* the truth value JavaScript gives to string | undefined
isSet(x) == x.set /\ x.value # ""
Envs ==
    [ HETZNER_CLOUD_TOKEN : {Unset, Set(""), Set("tok")},
      HETZNER_ROBOT_USER : {Unset, Set("user")},
      HETZNER_ROBOT_PASSWORD : {Unset, Set("pw")},
      HETZNER_MODE : {Unset, Set("read_only"), Set("read_write"), Set("readwrite")} ]

\* process.exit(1) inside loadConfig
Exit == [exit |-> TRUE, cloud |-> FALSE, robot |-> FALSE, mode |-> "none"]
\* HetznerConfig; cloud and robot say whether the field is not null
Config(cloud, robot, mode) == [exit |-> FALSE, cloud |-> cloud, robot |-> robot, mode |-> mode]

\* robotUser && robotPassword, one of the two being enough
hasRobot_either(robotUser, robotPassword) == isSet(robotUser) \/ isSet(robotPassword)
\* robotUser && robotPassword
hasRobot(robotUser, robotPassword) == isSet(robotUser) /\ isSet(robotPassword)

loadConfig(e) ==
    LET cloudToken == e.HETZNER_CLOUD_TOKEN
        robotUser == e.HETZNER_ROBOT_USER
        robotPassword == e.HETZNER_ROBOT_PASSWORD
        rawMode == IF e.HETZNER_MODE.set THEN e.HETZNER_MODE.value ELSE "read_only"
    IN  IF ~isSet(cloudToken) /\ ~hasRobot(robotUser, robotPassword) THEN Exit
        ELSE IF rawMode # "read_only" /\ rawMode # "read_write" THEN Exit
        ELSE Config(isSet(cloudToken), hasRobot(robotUser, robotPassword), rawMode)

\* const readOnly = config.mode === 'read_only', never true
readOnlyOf_never(config) == FALSE
\* const readOnly = config.mode === 'read_only'
readOnlyOf(config) == config.mode = "read_only"

\* One register(name, description, params, handler) call, the handler reduced
\* to what it does with its client:
\*   verb      the tool's name up to its first underscore
\*   api       the client the handler calls: "cloud" (Cloud and DNS) or "robot"
\*   method    the method of the handler's request (GET when none is given)
\*   confirm   the handler returns a warning at once unless args.confirm
\*   parses    the handler runs JSON.parse on an argument before its request
\*   prefetch  the handler awaits a requestAll of a catalogue before its request
\*   fetch     the call of the request: client.request or cloud.requestAll
\*   pageArg   the request carries the caller's page and per_page
\*   admits    the action fields the declared type of the result has ("action",
\*             "actions", "next_actions"); both of the first two when the
\*             result is untyped or a Record<string, unknown>
\*   polls     "action": await cloud.pollAction(result.action.id);
\*             "ifAction": the same inside if (result.action);
\*             "actions": for (const a of result.actions) await cloud.pollAction(a.id);
\*             "none": no pollAction
\*   shows     what the text holds of an action the handler polled:
\*             "initial": result.action (or the whole result) of the request;
\*             "polled": what pollAction returned (const action = await ...);
\*             "none": no action (also when nothing is polled)
Tool(name, verb, api, method, confirm, parses, prefetch, fetch, pageArg, admits, polls, shows) ==
    [name |-> name, verb |-> verb, api |-> api, method |-> method, confirm |-> confirm,
     parses |-> parses, prefetch |-> prefetch, fetch |-> fetch, pageArg |-> pageArg,
     admits |-> admits, polls |-> polls, shows |-> shows]

registerServerTools(readOnly) ==
    { Tool("list_servers", "list", "cloud", "GET", FALSE, FALSE, FALSE, "requestAll", FALSE, {}, "none", "none"),
      Tool("get_server", "get", "cloud", "GET", FALSE, FALSE, FALSE, "request", FALSE, {}, "none", "none"),
      Tool("get_server_metrics", "get", "cloud", "GET", FALSE, FALSE, FALSE, "request", FALSE, {}, "none", "none") }
    \cup IF ~readOnly
         THEN { Tool("create_server", "create", "cloud", "POST", FALSE, TRUE, TRUE, "request", FALSE, {"action", "next_actions"}, "ifAction", "none"),
                Tool("update_server", "update", "cloud", "PUT", FALSE, TRUE, FALSE, "request", FALSE, {}, "none", "none"),
                Tool("delete_server", "delete", "cloud", "DELETE", TRUE, FALSE, FALSE, "request", FALSE, {"action"}, "ifAction", "initial") }
         ELSE {}

registerServerActionTools(readOnly) ==
    { Tool("list_server_actions", "list", "cloud", "GET", FALSE, FALSE, FALSE, "requestAll", FALSE, {}, "none", "none"),
      Tool("get_server_action", "get", "cloud", "GET", FALSE, FALSE, FALSE, "request", FALSE, {"action"}, "none", "none") }
    \cup IF ~readOnly
         THEN { Tool("power_on_server", "power", "cloud", "POST", FALSE, FALSE, FALSE, "request", FALSE, {"action"}, "action", "initial"),
                Tool("power_off_server", "power", "cloud", "POST", FALSE, FALSE, FALSE, "request", FALSE, {"action"}, "action", "initial"),
                Tool("reboot_server", "reboot", "cloud", "POST", FALSE, FALSE, FALSE, "request", FALSE, {"action"}, "action", "initial"),
                Tool("reset_server", "reset", "cloud", "POST", FALSE, FALSE, FALSE, "request", FALSE, {"action"}, "action", "initial"),
                Tool("shutdown_server", "shutdown", "cloud", "POST", FALSE, FALSE, FALSE, "request", FALSE, {"action"}, "action", "initial"),
                Tool("rebuild_server", "rebuild", "cloud", "POST", TRUE, FALSE, FALSE, "request", FALSE, {"action"}, "ifAction", "initial"),
                Tool("change_server_type", "change", "cloud", "POST", FALSE, FALSE, FALSE, "request", FALSE, {"action"}, "action", "initial"),
                Tool("enable_server_rescue", "enable", "cloud", "POST", FALSE, FALSE, FALSE, "request", FALSE, {"action"}, "action", "initial"),
                Tool("disable_server_rescue", "disable", "cloud", "POST", FALSE, FALSE, FALSE, "request", FALSE, {"action"}, "action", "initial"),
                Tool("create_server_image", "create", "cloud", "POST", FALSE, TRUE, FALSE, "request", FALSE, {"action"}, "ifAction", "initial"),
                Tool("enable_server_backup", "enable", "cloud", "POST", FALSE, FALSE, FALSE, "request", FALSE, {"action"}, "action", "initial"),
                Tool("disable_server_backup", "disable", "cloud", "POST", FALSE, FALSE, FALSE, "request", FALSE, {"action"}, "action", "initial"),
                Tool("attach_iso_to_server", "attach", "cloud", "POST", FALSE, FALSE, FALSE, "request", FALSE, {"action"}, "action", "initial"),
                Tool("detach_iso_from_server", "detach", "cloud", "POST", FALSE, FALSE, FALSE, "request", FALSE, {"action"}, "action", "initial"),
                Tool("change_server_dns_ptr", "change", "cloud", "POST", FALSE, FALSE, FALSE, "request", FALSE, {"action"}, "action", "initial"),
                Tool("change_server_protection", "change", "cloud", "POST", FALSE, FALSE, FALSE, "request", FALSE, {"action"}, "action", "initial"),
                Tool("request_server_console", "request", "cloud", "POST", FALSE, FALSE, FALSE, "request", FALSE, {"action"}, "action", "none"),
                Tool("attach_server_to_network", "attach", "cloud", "POST", FALSE, FALSE, FALSE, "request", FALSE, {"action"}, "action", "initial"),
                Tool("detach_server_from_network", "detach", "cloud", "POST", FALSE, FALSE, FALSE, "request", FALSE, {"action"}, "action", "initial"),
                Tool("change_server_alias_ips", "change", "cloud", "POST", FALSE, FALSE, FALSE, "request", FALSE, {"action"}, "action", "initial"),
                Tool("add_server_to_placement_group", "add", "cloud", "POST", FALSE, FALSE, FALSE, "request", FALSE, {"action"}, "action", "initial"),
                Tool("remove_server_from_placement_group", "remove", "cloud", "POST", FALSE, FALSE, FALSE, "request", FALSE, {"action"}, "action", "initial") }
         ELSE {}

registerServerTypeTools ==
    { Tool("list_server_types", "list", "cloud", "GET", FALSE, FALSE, FALSE, "requestAll", FALSE, {}, "none", "none"),
      Tool("get_server_type", "get", "cloud", "GET", FALSE, FALSE, FALSE, "request", FALSE, {}, "none", "none") }

registerImageTools(readOnly) ==
    { Tool("list_images", "list", "cloud", "GET", FALSE, FALSE, FALSE, "requestAll", FALSE, {}, "none", "none"),
      Tool("get_image", "get", "cloud", "GET", FALSE, FALSE, FALSE, "request", FALSE, {}, "none", "none"),
      Tool("list_image_actions", "list", "cloud", "GET", FALSE, FALSE, FALSE, "requestAll", FALSE, {}, "none", "none") }
    \cup IF ~readOnly
         THEN { Tool("update_image", "update", "cloud", "PUT", FALSE, TRUE, FALSE, "request", FALSE, {}, "none", "none"),
                Tool("delete_image", "delete", "cloud", "DELETE", TRUE, FALSE, FALSE, "request", FALSE, {"action", "actions"}, "none", "none"),
                Tool("change_image_protection", "change", "cloud", "POST", FALSE, FALSE, FALSE, "request", FALSE, {"action"}, "action", "initial") }
         ELSE {}

registerIsoTools ==
    { Tool("list_isos", "list", "cloud", "GET", FALSE, FALSE, FALSE, "requestAll", FALSE, {}, "none", "none"),
      Tool("get_iso", "get", "cloud", "GET", FALSE, FALSE, FALSE, "request", FALSE, {}, "none", "none") }

registerVolumeTools(readOnly) ==
    { Tool("list_volumes", "list", "cloud", "GET", FALSE, FALSE, FALSE, "requestAll", FALSE, {}, "none", "none"),
      Tool("get_volume", "get", "cloud", "GET", FALSE, FALSE, FALSE, "request", FALSE, {"action", "actions"}, "none", "none"),
      Tool("list_volume_actions", "list", "cloud", "GET", FALSE, FALSE, FALSE, "requestAll", FALSE, {}, "none", "none") }
    \cup IF ~readOnly
         THEN { Tool("create_volume", "create", "cloud", "POST", FALSE, TRUE, FALSE, "request", FALSE, {"action"}, "action", "polled"),
                Tool("update_volume", "update", "cloud", "PUT", FALSE, TRUE, FALSE, "request", FALSE, {"action", "actions"}, "none", "none"),
                Tool("delete_volume", "delete", "cloud", "DELETE", TRUE, FALSE, FALSE, "request", FALSE, {"action", "actions"}, "none", "none"),
                Tool("attach_volume", "attach", "cloud", "POST", FALSE, FALSE, FALSE, "request", FALSE, {"action"}, "action", "polled"),
                Tool("detach_volume", "detach", "cloud", "POST", FALSE, FALSE, FALSE, "request", FALSE, {"action"}, "action", "polled"),
                Tool("resize_volume", "resize", "cloud", "POST", FALSE, FALSE, FALSE, "request", FALSE, {"action"}, "action", "polled"),
                Tool("change_volume_protection", "change", "cloud", "POST", FALSE, FALSE, FALSE, "request", FALSE, {"action"}, "action", "polled") }
         ELSE {}

registerNetworkTools(readOnly) ==
    { Tool("list_networks", "list", "cloud", "GET", FALSE, FALSE, FALSE, "requestAll", FALSE, {}, "none", "none"),
      Tool("get_network", "get", "cloud", "GET", FALSE, FALSE, FALSE, "request", FALSE, {"action", "actions"}, "none", "none"),
      Tool("list_network_actions", "list", "cloud", "GET", FALSE, FALSE, FALSE, "requestAll", FALSE, {}, "none", "none") }
    \cup IF ~readOnly
         THEN { Tool("create_network", "create", "cloud", "POST", FALSE, TRUE, FALSE, "request", FALSE, {"action", "actions"}, "none", "none"),
                Tool("update_network", "update", "cloud", "PUT", FALSE, TRUE, FALSE, "request", FALSE, {"action", "actions"}, "none", "none"),
                Tool("delete_network", "delete", "cloud", "DELETE", TRUE, FALSE, FALSE, "request", FALSE, {"action", "actions"}, "none", "none"),
                Tool("add_subnet_to_network", "add", "cloud", "POST", FALSE, FALSE, FALSE, "request", FALSE, {"action"}, "action", "polled"),
                Tool("delete_subnet_from_network", "delete", "cloud", "POST", FALSE, FALSE, FALSE, "request", FALSE, {"action"}, "action", "polled"),
                Tool("add_route_to_network", "add", "cloud", "POST", FALSE, FALSE, FALSE, "request", FALSE, {"action"}, "action", "polled"),
                Tool("delete_route_from_network", "delete", "cloud", "POST", FALSE, FALSE, FALSE, "request", FALSE, {"action"}, "action", "polled"),
                Tool("change_network_ip_range", "change", "cloud", "POST", FALSE, FALSE, FALSE, "request", FALSE, {"action"}, "action", "polled"),
                Tool("change_network_protection", "change", "cloud", "POST", FALSE, FALSE, FALSE, "request", FALSE, {"action"}, "action", "polled") }
         ELSE {}

registerFirewallTools(readOnly) ==
    { Tool("list_firewalls", "list", "cloud", "GET", FALSE, FALSE, FALSE, "requestAll", FALSE, {}, "none", "none"),
      Tool("get_firewall", "get", "cloud", "GET", FALSE, FALSE, FALSE, "request", FALSE, {"action", "actions"}, "none", "none"),
      Tool("list_firewall_actions", "list", "cloud", "GET", FALSE, FALSE, FALSE, "requestAll", FALSE, {}, "none", "none") }
    \cup IF ~readOnly
         THEN { Tool("create_firewall", "create", "cloud", "POST", FALSE, TRUE, FALSE, "request", FALSE, {"action", "actions"}, "none", "none"),
                Tool("update_firewall", "update", "cloud", "PUT", FALSE, TRUE, FALSE, "request", FALSE, {"action", "actions"}, "none", "none"),
                Tool("delete_firewall", "delete", "cloud", "DELETE", TRUE, FALSE, FALSE, "request", FALSE, {"action", "actions"}, "none", "none"),
                Tool("set_firewall_rules", "set", "cloud", "POST", FALSE, TRUE, FALSE, "request", FALSE, {"actions"}, "actions", "polled"),
                Tool("apply_firewall_to_resources", "apply", "cloud", "POST", FALSE, TRUE, FALSE, "request", FALSE, {"actions"}, "actions", "polled"),
                Tool("remove_firewall_from_resources", "remove", "cloud", "POST", FALSE, TRUE, FALSE, "request", FALSE, {"actions"}, "actions", "polled") }
         ELSE {}

registerFloatingIpTools(readOnly) ==
    { Tool("list_floating_ips", "list", "cloud", "GET", FALSE, FALSE, FALSE, "requestAll", FALSE, {}, "none", "none"),
      Tool("get_floating_ip", "get", "cloud", "GET", FALSE, FALSE, FALSE, "request", FALSE, {"action", "actions"}, "none", "none"),
      Tool("list_floating_ip_actions", "list", "cloud", "GET", FALSE, FALSE, FALSE, "requestAll", FALSE, {}, "none", "none") }
    \cup IF ~readOnly
         THEN { Tool("create_floating_ip", "create", "cloud", "POST", FALSE, TRUE, FALSE, "request", FALSE, {"action"}, "action", "polled"),
                Tool("update_floating_ip", "update", "cloud", "PUT", FALSE, TRUE, FALSE, "request", FALSE, {"action", "actions"}, "none", "none"),
                Tool("delete_floating_ip", "delete", "cloud", "DELETE", TRUE, FALSE, FALSE, "request", FALSE, {"action", "actions"}, "none", "none"),
                Tool("assign_floating_ip", "assign", "cloud", "POST", FALSE, FALSE, FALSE, "request", FALSE, {"action"}, "action", "polled"),
                Tool("unassign_floating_ip", "unassign", "cloud", "POST", FALSE, FALSE, FALSE, "request", FALSE, {"action"}, "action", "polled"),
                Tool("change_floating_ip_dns_ptr", "change", "cloud", "POST", FALSE, FALSE, FALSE, "request", FALSE, {"action"}, "action", "polled"),
                Tool("change_floating_ip_protection", "change", "cloud", "POST", FALSE, FALSE, FALSE, "request", FALSE, {"action"}, "action", "polled") }
         ELSE {}

registerPrimaryIpTools(readOnly) ==
    { Tool("list_primary_ips", "list", "cloud", "GET", FALSE, FALSE, FALSE, "requestAll", FALSE, {}, "none", "none"),
      Tool("get_primary_ip", "get", "cloud", "GET", FALSE, FALSE, FALSE, "request", FALSE, {"action", "actions"}, "none", "none") }
    \cup IF ~readOnly
         THEN { Tool("create_primary_ip", "create", "cloud", "POST", FALSE, TRUE, FALSE, "request", FALSE, {"action", "actions"}, "none", "none"),
                Tool("update_primary_ip", "update", "cloud", "PUT", FALSE, TRUE, FALSE, "request", FALSE, {"action", "actions"}, "none", "none"),
                Tool("delete_primary_ip", "delete", "cloud", "DELETE", TRUE, FALSE, FALSE, "request", FALSE, {"action", "actions"}, "none", "none"),
                Tool("assign_primary_ip", "assign", "cloud", "POST", FALSE, FALSE, FALSE, "request", FALSE, {"action"}, "action", "polled"),
                Tool("unassign_primary_ip", "unassign", "cloud", "POST", FALSE, FALSE, FALSE, "request", FALSE, {"action"}, "action", "polled"),
                Tool("change_primary_ip_dns_ptr", "change", "cloud", "POST", FALSE, FALSE, FALSE, "request", FALSE, {"action"}, "action", "polled"),
                Tool("change_primary_ip_protection", "change", "cloud", "POST", FALSE, FALSE, FALSE, "request", FALSE, {"action"}, "action", "polled") }
         ELSE {}

registerLoadBalancerTools(readOnly) ==
    { Tool("list_load_balancers", "list", "cloud", "GET", FALSE, FALSE, FALSE, "requestAll", FALSE, {}, "none", "none"),
      Tool("get_load_balancer", "get", "cloud", "GET", FALSE, FALSE, FALSE, "request", FALSE, {}, "none", "none"),
      Tool("get_load_balancer_metrics", "get", "cloud", "GET", FALSE, FALSE, FALSE, "request", FALSE, {}, "none", "none"),
      Tool("list_load_balancer_actions", "list", "cloud", "GET", FALSE, FALSE, FALSE, "request", FALSE, {"actions"}, "none", "none") }
    \cup IF ~readOnly
         THEN { Tool("create_load_balancer", "create", "cloud", "POST", FALSE, TRUE, FALSE, "request", FALSE, {"action"}, "ifAction", "none"),
                Tool("update_load_balancer", "update", "cloud", "PUT", FALSE, TRUE, FALSE, "request", FALSE, {}, "none", "none"),
                Tool("delete_load_balancer", "delete", "cloud", "DELETE", TRUE, FALSE, FALSE, "request", FALSE, {"action", "actions"}, "none", "none"),
                Tool("add_load_balancer_target", "add", "cloud", "POST", FALSE, FALSE, FALSE, "request", FALSE, {"action"}, "ifAction", "initial"),
                Tool("remove_load_balancer_target", "remove", "cloud", "POST", FALSE, FALSE, FALSE, "request", FALSE, {"action"}, "ifAction", "initial"),
                Tool("add_load_balancer_service", "add", "cloud", "POST", FALSE, TRUE, FALSE, "request", FALSE, {"action"}, "ifAction", "initial"),
                Tool("update_load_balancer_service", "update", "cloud", "POST", FALSE, TRUE, FALSE, "request", FALSE, {"action"}, "ifAction", "initial"),
                Tool("delete_load_balancer_service", "delete", "cloud", "POST", FALSE, FALSE, FALSE, "request", FALSE, {"action"}, "ifAction", "initial"),
                Tool("change_load_balancer_algorithm", "change", "cloud", "POST", FALSE, FALSE, FALSE, "request", FALSE, {"action"}, "ifAction", "initial"),
                Tool("change_load_balancer_type", "change", "cloud", "POST", FALSE, FALSE, FALSE, "request", FALSE, {"action"}, "ifAction", "initial"),
                Tool("change_load_balancer_protection", "change", "cloud", "POST", FALSE, FALSE, FALSE, "request", FALSE, {"action"}, "ifAction", "initial"),
                Tool("change_load_balancer_dns_ptr", "change", "cloud", "POST", FALSE, FALSE, FALSE, "request", FALSE, {"action"}, "ifAction", "initial"),
                Tool("attach_load_balancer_to_network", "attach", "cloud", "POST", FALSE, FALSE, FALSE, "request", FALSE, {"action"}, "ifAction", "initial"),
                Tool("detach_load_balancer_from_network", "detach", "cloud", "POST", FALSE, FALSE, FALSE, "request", FALSE, {"action"}, "ifAction", "initial"),
                Tool("enable_load_balancer_public_interface", "enable", "cloud", "POST", FALSE, FALSE, FALSE, "request", FALSE, {"action"}, "ifAction", "initial"),
                Tool("disable_load_balancer_public_interface", "disable", "cloud", "POST", FALSE, FALSE, FALSE, "request", FALSE, {"action"}, "ifAction", "initial") }
         ELSE {}

registerLoadBalancerTypeTools ==
    { Tool("list_load_balancer_types", "list", "cloud", "GET", FALSE, FALSE, FALSE, "requestAll", FALSE, {}, "none", "none"),
      Tool("get_load_balancer_type", "get", "cloud", "GET", FALSE, FALSE, FALSE, "request", FALSE, {}, "none", "none") }

registerCertificateTools(readOnly) ==
    { Tool("list_certificates", "list", "cloud", "GET", FALSE, FALSE, FALSE, "requestAll", FALSE, {}, "none", "none"),
      Tool("get_certificate", "get", "cloud", "GET", FALSE, FALSE, FALSE, "request", FALSE, {}, "none", "none"),
      Tool("list_certificate_actions", "list", "cloud", "GET", FALSE, FALSE, FALSE, "request", FALSE, {"actions"}, "none", "none") }
    \cup IF ~readOnly
         THEN { Tool("create_certificate", "create", "cloud", "POST", FALSE, TRUE, FALSE, "request", FALSE, {"action"}, "ifAction", "none"),
                Tool("update_certificate", "update", "cloud", "PUT", FALSE, TRUE, FALSE, "request", FALSE, {}, "none", "none"),
                Tool("delete_certificate", "delete", "cloud", "DELETE", TRUE, FALSE, FALSE, "request", FALSE, {"action", "actions"}, "none", "none"),
                Tool("retry_certificate_issuance", "retry", "cloud", "POST", FALSE, FALSE, FALSE, "request", FALSE, {"action"}, "ifAction", "initial") }
         ELSE {}

registerSshKeyTools(readOnly) ==
    { Tool("list_ssh_keys", "list", "cloud", "GET", FALSE, FALSE, FALSE, "requestAll", FALSE, {}, "none", "none"),
      Tool("get_ssh_key", "get", "cloud", "GET", FALSE, FALSE, FALSE, "request", FALSE, {}, "none", "none") }
    \cup IF ~readOnly
         THEN { Tool("create_ssh_key", "create", "cloud", "POST", FALSE, TRUE, FALSE, "request", FALSE, {}, "none", "none"),
                Tool("update_ssh_key", "update", "cloud", "PUT", FALSE, TRUE, FALSE, "request", FALSE, {}, "none", "none"),
                Tool("delete_ssh_key", "delete", "cloud", "DELETE", TRUE, FALSE, FALSE, "request", FALSE, {"action", "actions"}, "none", "none") }
         ELSE {}

registerPlacementGroupTools(readOnly) ==
    { Tool("list_placement_groups", "list", "cloud", "GET", FALSE, FALSE, FALSE, "requestAll", FALSE, {}, "none", "none"),
      Tool("get_placement_group", "get", "cloud", "GET", FALSE, FALSE, FALSE, "request", FALSE, {}, "none", "none") }
    \cup IF ~readOnly
         THEN { Tool("create_placement_group", "create", "cloud", "POST", FALSE, TRUE, FALSE, "request", FALSE, {}, "none", "none"),
                Tool("update_placement_group", "update", "cloud", "PUT", FALSE, TRUE, FALSE, "request", FALSE, {}, "none", "none"),
                Tool("delete_placement_group", "delete", "cloud", "DELETE", TRUE, FALSE, FALSE, "request", FALSE, {"action", "actions"}, "none", "none") }
         ELSE {}

registerDatacenterTools ==
    { Tool("list_datacenters", "list", "cloud", "GET", FALSE, FALSE, FALSE, "requestAll", FALSE, {}, "none", "none"),
      Tool("get_datacenter", "get", "cloud", "GET", FALSE, FALSE, FALSE, "request", FALSE, {}, "none", "none") }

registerLocationTools ==
    { Tool("list_locations", "list", "cloud", "GET", FALSE, FALSE, FALSE, "requestAll", FALSE, {}, "none", "none"),
      Tool("get_location", "get", "cloud", "GET", FALSE, FALSE, FALSE, "request", FALSE, {}, "none", "none") }

registerPricingTools ==
    { Tool("get_pricing", "get", "cloud", "GET", FALSE, FALSE, FALSE, "request", FALSE, {}, "none", "none") }

registerActionTools ==
    { Tool("list_actions", "list", "cloud", "GET", FALSE, FALSE, FALSE, "requestAll", FALSE, {}, "none", "none"),
      Tool("get_action", "get", "cloud", "GET", FALSE, FALSE, FALSE, "request", FALSE, {"action"}, "none", "none") }

registerDnsZoneTools(readOnly) ==
    { Tool("list_dns_zones", "list", "cloud", "GET", FALSE, FALSE, FALSE, "request", TRUE, {}, "none", "none"),
      Tool("get_dns_zone", "get", "cloud", "GET", FALSE, FALSE, FALSE, "request", FALSE, {}, "none", "none"),
      Tool("export_dns_zone", "export", "cloud", "GET", FALSE, FALSE, FALSE, "request", FALSE, {}, "none", "none") }
    \cup IF ~readOnly
         THEN { Tool("create_dns_zone", "create", "cloud", "POST", FALSE, FALSE, FALSE, "request", FALSE, {}, "none", "none"),
                Tool("update_dns_zone", "update", "cloud", "PUT", FALSE, FALSE, FALSE, "request", FALSE, {}, "none", "none"),
                Tool("delete_dns_zone", "delete", "cloud", "DELETE", TRUE, FALSE, FALSE, "request", FALSE, {"action", "actions"}, "none", "none"),
                Tool("validate_dns_zone_file", "validate", "cloud", "POST", FALSE, FALSE, FALSE, "request", FALSE, {}, "none", "none"),
                Tool("import_dns_zone", "import", "cloud", "POST", FALSE, FALSE, FALSE, "request", FALSE, {}, "none", "none") }
         ELSE {}

registerDnsRecordTools(readOnly) ==
    { Tool("list_dns_records", "list", "cloud", "GET", FALSE, FALSE, FALSE, "request", TRUE, {}, "none", "none"),
      Tool("get_dns_record", "get", "cloud", "GET", FALSE, FALSE, FALSE, "request", FALSE, {}, "none", "none") }
    \cup IF ~readOnly
         THEN { Tool("create_dns_record", "create", "cloud", "POST", FALSE, FALSE, FALSE, "request", FALSE, {}, "none", "none"),
                Tool("update_dns_record", "update", "cloud", "PUT", FALSE, FALSE, FALSE, "request", FALSE, {}, "none", "none"),
                Tool("delete_dns_record", "delete", "cloud", "DELETE", TRUE, FALSE, FALSE, "request", FALSE, {"action", "actions"}, "none", "none"),
                Tool("bulk_create_dns_records", "bulk", "cloud", "POST", FALSE, TRUE, FALSE, "request", FALSE, {}, "none", "none"),
                Tool("bulk_update_dns_records", "bulk", "cloud", "PUT", FALSE, TRUE, FALSE, "request", FALSE, {}, "none", "none") }
         ELSE {}

registerRobotServerTools(readOnly) ==
    { Tool("list_robot_servers", "list", "robot", "GET", FALSE, FALSE, FALSE, "request", FALSE, {}, "none", "none"),
      Tool("get_robot_server", "get", "robot", "GET", FALSE, FALSE, FALSE, "request", FALSE, {}, "none", "none"),
      Tool("get_robot_server_cancellation", "get", "robot", "GET", FALSE, FALSE, FALSE, "request", FALSE, {}, "none", "none") }
    \cup IF ~readOnly
         THEN { Tool("rename_robot_server", "rename", "robot", "POST", FALSE, FALSE, FALSE, "request", FALSE, {}, "none", "none"),
                Tool("cancel_robot_server", "cancel", "robot", "POST", TRUE, FALSE, FALSE, "request", FALSE, {}, "none", "none"),
                Tool("withdraw_robot_server_cancellation", "withdraw", "robot", "DELETE", TRUE, FALSE, FALSE, "request", FALSE, {}, "none", "none") }
         ELSE {}

registerRobotResetTools(readOnly) ==
    { Tool("list_robot_reset_options", "list", "robot", "GET", FALSE, FALSE, FALSE, "request", FALSE, {}, "none", "none"),
      Tool("get_robot_reset_options", "get", "robot", "GET", FALSE, FALSE, FALSE, "request", FALSE, {}, "none", "none") }
    \cup IF ~readOnly
         THEN { Tool("reset_robot_server", "reset", "robot", "POST", FALSE, FALSE, FALSE, "request", FALSE, {}, "none", "none") }
         ELSE {}

registerRobotWolTools(readOnly) ==
    { Tool("get_robot_wol", "get", "robot", "GET", FALSE, FALSE, FALSE, "request", FALSE, {}, "none", "none") }
    \cup IF ~readOnly
         THEN { Tool("send_robot_wol", "send", "robot", "POST", FALSE, FALSE, FALSE, "request", FALSE, {}, "none", "none") }
         ELSE {}

registerRobotBootTools(readOnly) ==
    { Tool("get_robot_boot_config", "get", "robot", "GET", FALSE, FALSE, FALSE, "request", FALSE, {}, "none", "none"),
      Tool("get_robot_rescue", "get", "robot", "GET", FALSE, FALSE, FALSE, "request", FALSE, {}, "none", "none"),
      Tool("get_robot_linux", "get", "robot", "GET", FALSE, FALSE, FALSE, "request", FALSE, {}, "none", "none"),
      Tool("get_robot_vnc", "get", "robot", "GET", FALSE, FALSE, FALSE, "request", FALSE, {}, "none", "none") }
    \cup IF ~readOnly
         THEN { Tool("enable_robot_rescue", "enable", "robot", "POST", FALSE, FALSE, FALSE, "request", FALSE, {}, "none", "none"),
                Tool("disable_robot_rescue", "disable", "robot", "DELETE", FALSE, FALSE, FALSE, "request", FALSE, {}, "none", "none"),
                Tool("enable_robot_linux", "enable", "robot", "POST", FALSE, FALSE, FALSE, "request", FALSE, {}, "none", "none"),
                Tool("disable_robot_linux", "disable", "robot", "DELETE", FALSE, FALSE, FALSE, "request", FALSE, {}, "none", "none"),
                Tool("enable_robot_vnc", "enable", "robot", "POST", FALSE, FALSE, FALSE, "request", FALSE, {}, "none", "none"),
                Tool("disable_robot_vnc", "disable", "robot", "DELETE", FALSE, FALSE, FALSE, "request", FALSE, {}, "none", "none") }
         ELSE {}

registerRobotKeyTools(readOnly) ==
    { Tool("list_robot_ssh_keys", "list", "robot", "GET", FALSE, FALSE, FALSE, "request", FALSE, {}, "none", "none"),
      Tool("get_robot_ssh_key", "get", "robot", "GET", FALSE, FALSE, FALSE, "request", FALSE, {}, "none", "none") }
    \cup IF ~readOnly
         THEN { Tool("create_robot_ssh_key", "create", "robot", "POST", FALSE, FALSE, FALSE, "request", FALSE, {}, "none", "none"),
                Tool("update_robot_ssh_key", "update", "robot", "POST", FALSE, FALSE, FALSE, "request", FALSE, {}, "none", "none"),
                Tool("delete_robot_ssh_key", "delete", "robot", "DELETE", TRUE, FALSE, FALSE, "request", FALSE, {}, "none", "none") }
         ELSE {}

registerRobotIpTools(readOnly) ==
    { Tool("list_robot_ips", "list", "robot", "GET", FALSE, FALSE, FALSE, "request", FALSE, {}, "none", "none"),
      Tool("get_robot_ip", "get", "robot", "GET", FALSE, FALSE, FALSE, "request", FALSE, {}, "none", "none"),
      Tool("get_robot_ip_mac", "get", "robot", "GET", FALSE, FALSE, FALSE, "request", FALSE, {}, "none", "none") }
    \cup IF ~readOnly
         THEN { Tool("update_robot_ip", "update", "robot", "POST", FALSE, FALSE, FALSE, "request", FALSE, {}, "none", "none"),
                Tool("create_robot_ip_mac", "create", "robot", "PUT", FALSE, FALSE, FALSE, "request", FALSE, {}, "none", "none"),
                Tool("delete_robot_ip_mac", "delete", "robot", "DELETE", TRUE, FALSE, FALSE, "request", FALSE, {}, "none", "none") }
         ELSE {}

registerRobotSubnetTools(readOnly) ==
    { Tool("list_robot_subnets", "list", "robot", "GET", FALSE, FALSE, FALSE, "request", FALSE, {}, "none", "none"),
      Tool("get_robot_subnet", "get", "robot", "GET", FALSE, FALSE, FALSE, "request", FALSE, {}, "none", "none"),
      Tool("get_robot_subnet_mac", "get", "robot", "GET", FALSE, FALSE, FALSE, "request", FALSE, {}, "none", "none") }
    \cup IF ~readOnly
         THEN { Tool("update_robot_subnet", "update", "robot", "POST", FALSE, FALSE, FALSE, "request", FALSE, {}, "none", "none"),
                Tool("create_robot_subnet_mac", "create", "robot", "PUT", FALSE, FALSE, FALSE, "request", FALSE, {}, "none", "none"),
                Tool("delete_robot_subnet_mac", "delete", "robot", "DELETE", TRUE, FALSE, FALSE, "request", FALSE, {}, "none", "none") }
         ELSE {}

registerRobotFirewallTools(readOnly) ==
    { Tool("get_robot_firewall", "get", "robot", "GET", FALSE, FALSE, FALSE, "request", FALSE, {}, "none", "none"),
      Tool("list_robot_firewall_templates", "list", "robot", "GET", FALSE, FALSE, FALSE, "request", FALSE, {}, "none", "none"),
      Tool("get_robot_firewall_template", "get", "robot", "GET", FALSE, FALSE, FALSE, "request", FALSE, {}, "none", "none") }
    \cup IF ~readOnly
         THEN { Tool("set_robot_firewall", "set", "robot", "POST", FALSE, TRUE, FALSE, "request", FALSE, {}, "none", "none"),
                Tool("delete_robot_firewall", "delete", "robot", "DELETE", TRUE, FALSE, FALSE, "request", FALSE, {}, "none", "none"),
                Tool("create_robot_firewall_template", "create", "robot", "POST", FALSE, TRUE, FALSE, "request", FALSE, {}, "none", "none"),
                Tool("update_robot_firewall_template", "update", "robot", "POST", FALSE, TRUE, FALSE, "request", FALSE, {}, "none", "none"),
                Tool("delete_robot_firewall_template", "delete", "robot", "DELETE", TRUE, FALSE, FALSE, "request", FALSE, {}, "none", "none") }
         ELSE {}

registerRobotVswitchTools(readOnly) ==
    { Tool("list_robot_vswitches", "list", "robot", "GET", FALSE, FALSE, FALSE, "request", FALSE, {}, "none", "none"),
      Tool("get_robot_vswitch", "get", "robot", "GET", FALSE, FALSE, FALSE, "request", FALSE, {}, "none", "none") }
    \cup IF ~readOnly
         THEN { Tool("create_robot_vswitch", "create", "robot", "POST", FALSE, FALSE, FALSE, "request", FALSE, {}, "none", "none"),
                Tool("update_robot_vswitch", "update", "robot", "POST", FALSE, FALSE, FALSE, "request", FALSE, {}, "none", "none"),
                Tool("delete_robot_vswitch", "delete", "robot", "DELETE", TRUE, FALSE, FALSE, "request", FALSE, {}, "none", "none"),
                Tool("add_robot_vswitch_server", "add", "robot", "POST", FALSE, FALSE, FALSE, "request", FALSE, {}, "none", "none"),
                Tool("remove_robot_vswitch_server", "remove", "robot", "DELETE", TRUE, FALSE, FALSE, "request", FALSE, {}, "none", "none") }
         ELSE {}

registerRobotRdnsTools(readOnly) ==
    { Tool("list_robot_rdns", "list", "robot", "GET", FALSE, FALSE, FALSE, "request", FALSE, {}, "none", "none"),
      Tool("get_robot_rdns", "get", "robot", "GET", FALSE, FALSE, FALSE, "request", FALSE, {}, "none", "none") }
    \cup IF ~readOnly
         THEN { Tool("create_robot_rdns", "create", "robot", "PUT", FALSE, FALSE, FALSE, "request", FALSE, {}, "none", "none"),
                Tool("update_robot_rdns", "update", "robot", "POST", FALSE, FALSE, FALSE, "request", FALSE, {}, "none", "none"),
                Tool("delete_robot_rdns", "delete", "robot", "DELETE", TRUE, FALSE, FALSE, "request", FALSE, {}, "none", "none") }
         ELSE {}

registerRobotTrafficTools ==
    { Tool("get_robot_traffic", "get", "robot", "GET", FALSE, FALSE, FALSE, "request", FALSE, {}, "none", "none") }

registerRobotFailoverTools(readOnly) ==
    { Tool("list_robot_failover_ips", "list", "robot", "GET", FALSE, FALSE, FALSE, "request", FALSE, {}, "none", "none"),
      Tool("get_robot_failover_ip", "get", "robot", "GET", FALSE, FALSE, FALSE, "request", FALSE, {}, "none", "none") }
    \cup IF ~readOnly
         THEN { Tool("route_robot_failover_ip", "route", "robot", "POST", FALSE, FALSE, FALSE, "request", FALSE, {}, "none", "none") }
         ELSE {}

\* registerAllTools(server, cloud, robot, readOnly), cloud and robot standing for
\* "the client is not null": the tools registered with the server.
registerAllTools(cloud, robot, readOnly) ==
    (IF cloud
     THEN UNION { registerServerTools(readOnly),
                   registerServerActionTools(readOnly),
                   registerServerTypeTools,
                   registerImageTools(readOnly),
                   registerIsoTools,
                   registerVolumeTools(readOnly),
                   registerNetworkTools(readOnly),
                   registerFirewallTools(readOnly),
                   registerFloatingIpTools(readOnly),
                   registerPrimaryIpTools(readOnly),
                   registerLoadBalancerTools(readOnly),
                   registerLoadBalancerTypeTools,
                   registerCertificateTools(readOnly),
                   registerSshKeyTools(readOnly),
                   registerPlacementGroupTools(readOnly),
                   registerDatacenterTools,
                   registerLocationTools,
                   registerPricingTools,
                   registerActionTools,
                   registerDnsZoneTools(readOnly),
                   registerDnsRecordTools(readOnly) }
     ELSE {})
    \cup (IF robot
          THEN UNION { registerRobotServerTools(readOnly),
                        registerRobotResetTools(readOnly),
                        registerRobotWolTools(readOnly),
                        registerRobotBootTools(readOnly),
                        registerRobotKeyTools(readOnly),
                        registerRobotIpTools(readOnly),
                        registerRobotSubnetTools(readOnly),
                        registerRobotFirewallTools(readOnly),
                        registerRobotVswitchTools(readOnly),
                        registerRobotRdnsTools(readOnly),
                        registerRobotTrafficTools,
                        registerRobotFailoverTools(readOnly) }
          ELSE {})

\* Values a handler can throw. message is Error.message, details the JSON text
\* of error.details (NoDetails when it is undefined).
NoDetails == ""
\* new HetznerApiError(status, code, message, details)
newHetznerApiError(status, code, message, details) ==
    [class |-> "HetznerApiError", status |-> status, code |-> code,
     message |-> "[Hetzner:" \o ToString(status) \o ":" \o code \o "] " \o message,
     details |-> details]
\* new RobotApiError(status, code, message, path)
newRobotApiError(status, code, message, path) ==
    [class |-> "RobotApiError", status |-> status, code |-> code,
     message |-> "[Robot:" \o (IF status # 0 THEN ToString(status) ELSE code) \o "] "
                    \o message \o " (" \o path \o ")",
     details |-> NoDetails]
\* any other Error: SyntaxError of JSON.parse, TypeError, a failure of fetch
newError(message) ==
    [class |-> "Error", status |-> 0, code |-> "", message |-> message, details |-> NoDetails]
\* a thrown value that is no Error; message is String(value)
thrownValue(text) ==
    [class |-> "value", status |-> 0, code |-> "", message |-> text, details |-> NoDetails]
NoError == [class |-> "none", status |-> 0, code |-> "", message |-> "", details |-> NoDetails]

formatError(error) ==
    IF error.class = "HetznerApiError"
    THEN "Error " \o ToString(error.status) \o " (" \o error.code \o "): " \o error.message
            \o (IF error.details # NoDetails THEN "\nDetails: " \o error.details ELSE "")
    ELSE IF error.class = "RobotApiError" THEN error.message
    ELSE IF error.class = "Error" THEN "Error: " \o error.message
    ELSE "Error: " \o error.message

\* How handler(args) settles: with a text (pages: the pages of the collection
\* whose items the text holds), or with a throw.
NotSettled == [settled |-> FALSE, threw |-> FALSE, text |-> "", pages |-> {}, error |-> NoError]
Gave(text, pages) ==
    [settled |-> TRUE, threw |-> FALSE, text |-> text, pages |-> pages, error |-> NoError]
Threw(error) ==
    [settled |-> TRUE, threw |-> TRUE, text |-> "", pages |-> {}, error |-> error]

\* what the callback registered by createRegistrar returns
NoReply == [sent |-> FALSE, isError |-> FALSE, text |-> ""]
Reply(isError, text) == [sent |-> TRUE, isError |-> isError, text |-> text]
\* the catch block returning its content without the isError flag
createRegistrar_unflagged(outcome) ==
    IF outcome.threw THEN Reply(FALSE, formatError(outcome.error))
    ELSE Reply(FALSE, outcome.text)
\* try { text = await handler(args); return {content} }
\* catch (error) { return {content: formatError(error), isError: true} }
createRegistrar(outcome) ==
    IF outcome.threw THEN Reply(TRUE, formatError(outcome.error))
    ELSE Reply(FALSE, outcome.text)

NoTool == Tool("", "", "", "", FALSE, FALSE, FALSE, "", FALSE, {}, "none", "none")
NoArgs == [confirm |-> FALSE, json |-> "valid", page |-> NoPage]
NoCall == [tool |-> NoTool, args |-> NoArgs]
NoBody == [action |-> 0, actions |-> <<>>, next_actions |-> <<>>, status |-> "running"]

VARIABLES
    env,              \* process.env
    phase,            \* "boot", "exited" (process.exit(1)) or "serving"
    clients,          \* main: cloud and robot, whether each is constructed
    registered,       \* the tools registered with the MCP server
    call,             \* the tool call in progress or just answered
    stage,            \* where its handler stands
    sent,             \* the methods of the requests the handler has sent
    collection,       \* how many pages the endpoint of the call has
    received,         \* the body the handler's request resolved with
    toPoll,           \* the actions the handler has still to poll
    polled,           \* the actions whose pollAction has resolved
    finals,           \* the actions as the pollAction calls returned them
    written,          \* the polled actions as the handler's text holds them
    outcome,          \* how handler(args) settled
    reply             \* what the registered callback returned

toolVars == <<env, phase, clients, registered, call, stage, sent, collection, received,
              toPoll, polled, finals, written, outcome, reply>>

\* the process as started, main not yet run
ToolBoot ==
    /\ phase = "boot"
    /\ clients = [cloud |-> FALSE, robot |-> FALSE]
    /\ registered = {}
    /\ call = NoCall
    /\ stage = "idle"
    /\ sent = <<>>
    /\ collection = 1
    /\ received = NoBody
    /\ toPoll = <<>>
    /\ polled = {}
    /\ finals = {}
    /\ written = {}
    /\ outcome = NotSettled
    /\ reply = NoReply
\* no credentials in the environment
ToolIdle ==
    /\ env = [HETZNER_CLOUD_TOKEN |-> Unset, HETZNER_ROBOT_USER |-> Unset,
              HETZNER_ROBOT_PASSWORD |-> Unset, HETZNER_MODE |-> Unset]
    /\ ToolBoot

\* everything outside RobotClient
cloudSide == <<cloudVars, pageVars, pollVars, formVars, toolVars>>

vars == <<robotVars, cloudSide>>

Init == RobotInit /\ CloudInit /\ PageInit /\ PollInit /\ FormIdle /\ ToolIdle

\* ------------------------------------------------------------ helpers
Range(s) == {s[i] : i \in 1 .. Len(s)}
\* f with every task of D mapped to v
Upd(f, D, v) == [t \in Tasks |-> IF t \in D THEN v ELSE f[t]]

\* ------------------------------------------------- doRequest, one attempt
\* An error value travelling through the try/catch of doRequest.
Thrown(name, message, apiError) == [name |-> name, message |-> message, apiError |-> apiError]

isRateLimited_only429(status) == status = 429
isRateLimited(status) == status = 429 \/ status = 403
\* Response.ok
ok(status) == status >= 200 /\ status <= 299
\* the Content-Length header not looked at
isEmptyResponse_only204(o) == o.status = 204
\* response.status === 204 || response.headers.get('content-length') === '0'
isEmptyResponse(o) == o.status = 204 \/ o.contentLength0
isAbortError_never(error) == FALSE
isAbortError(error) == error.name = "AbortError"
attemptsRemain_inclusive(a) == a <= maxRetries
attemptsRemain(a) == a < maxRetries
mayRetryNetwork_always(a) == a < maxRetries
mayRetryNetwork(a) == a < maxRetries - 1

\* parseInt(text, 10) of a text of decimal digits
RECURSIVE parseInt(_)
parseInt(text) ==
    IF Len(text) = 0 THEN 0
    ELSE parseInt(SubSeq(text, 1, Len(text) - 1)) * 10 + text[Len(text)]

\* headers.get(name) used as a condition: null and '' are falsy
truthy(h) == h.present /\ Len(h.text) > 0

\* the jitter added to the server's hint as well
rateLimitDelay_jittered(retryAfter, a, jitter) ==
    IF truthy(retryAfter) THEN parseInt(retryAfter.text) * 1000 + jitter
    ELSE (2 ^ a) * 1000 + jitter
\* retryAfter ? parseInt(retryAfter, 10) * 1000 : Math.pow(2, attempt) * 1000 + jitter
rateLimitDelay(retryAfter, a, jitter) ==
    IF truthy(retryAfter) THEN parseInt(retryAfter.text) * 1000
    ELSE (2 ^ a) * 1000 + jitter
\* the exponent one too large
networkDelay_nextPower(a, jitter) == (2 ^ (a + 1)) * 1000 + jitter
\* Math.pow(2, attempt) * 1000 + jitter
networkDelay(a, jitter) == (2 ^ a) * 1000 + jitter

\* What one loop iteration does next.
Sleep(d, le) == [next |-> "sleep", delay |-> d, lastError |-> le, result |-> NoResult]
Finish(r, le) == [next |-> "finish", delay |-> 0, lastError |-> le, result |-> r]
FallThrough(le) == [next |-> "loop", delay |-> 0, lastError |-> le, result |-> NoResult]

\* the error body ignored: always the fallback code and message
apiErrorOf_noBody(resp, path) ==
    RobotApiError(resp.status, "UNKNOWN", <<statusText(resp.status)>>, path)

apiErrorOf(resp, path) ==
    LET err == IF resp.body.json /\ resp.body.error THEN resp.body ELSE NoJson
    IN  RobotApiError(resp.status,
                      IF err.code # Null THEN err.code ELSE "UNKNOWN",
                      IF err.message # Null THEN <<err.message>> ELSE <<statusText(resp.status)>>,
                      path)

\* options.method of the request for `path`: the workload sends one request of
\* each method, a mutating one first.
methodOf(path) == <<"POST", "GET", "DELETE", "PUT">>[path]

\* the catch block backing off only for a request that changes nothing
catchBlock_readsOnly(error, a, le, jitter, path) ==
    IF error.name = "RobotApiError" THEN Finish(error.apiError, le)
    ELSE IF isAbortError(error)
    THEN Finish(RobotApiError(0, "TIMEOUT",
                    <<"Request timed out after", ToString(timeout), "ms">>, path), le)
    ELSE IF mayRetryNetwork(a) /\ methodOf(path) = "GET"
         THEN Sleep(networkDelay(a, jitter), error.message)
         ELSE FallThrough(error.message)

\* The catch block of the loop body.
catchBlock(error, a, le, jitter, path) ==
    IF error.name = "RobotApiError" THEN Finish(error.apiError, le)
    ELSE IF isAbortError(error)
    THEN Finish(RobotApiError(0, "TIMEOUT",
                    <<"Request timed out after", ToString(timeout), "ms">>, path), le)
    ELSE IF mayRetryNetwork(a)
         THEN Sleep(networkDelay(a, jitter), error.message)
         ELSE FallThrough(error.message)

\* The try block of the loop body, given the outcome of fetch().
iteration(o, a, le, jitter, path) ==
    IF o.kind = "abort" THEN catchBlock(Thrown("AbortError", o.msg, NoResult), a, le, jitter, path)
    ELSE IF o.kind = "neterr" THEN catchBlock(Thrown("TypeError", o.msg, NoResult), a, le, jitter, path)
    ELSE IF isRateLimited(o.status)
    THEN Sleep(rateLimitDelay(o.retryAfter, a, jitter), le)
    ELSE IF ~ok(o.status)
    THEN catchBlock(Thrown("RobotApiError", Null, apiErrorOf(o, path)), a, le, jitter, path)
    ELSE IF isEmptyResponse(o)
    THEN Finish(Returned("{}"), le)
    ELSE IF o.body.json
    THEN Finish(Returned(o.body.value), le)
    ELSE catchBlock(Thrown("SyntaxError", "Unexpected end of JSON input", NoResult),
                    a, le, jitter, path)

\* the terminal throw carrying the status of a rate limit
exhausted_status429(le, path) ==
    RobotApiError(429, "RATE_LIMITED",
        <<"Request failed after", ToString(maxRetries), "attempts:",
          IF le # Null THEN le ELSE "Unknown error">>, path)
\* The terminal throw after the loop.
exhausted(le, path) ==
    RobotApiError(0, "NETWORK",
        <<"Request failed after", ToString(maxRetries), "attempts:",
          IF le # Null THEN le ELSE "Unknown error">>, path)

\* attempt++ and the loop test: either the next fetch() or the terminal throw.
loopStep(a, le, path) ==
    IF attemptsRemain(a + 1)
    THEN [pc |-> "fetch", attempt |-> a + 1, result |-> NoResult]
    ELSE [pc |-> "settled", attempt |-> a + 1, result |-> exhausted(le, path)]

\* ------------------------------------------------------ admission queue
\* this.activeRequests < this.maxConcurrent, the test always passing
canRunNow_always(active) == TRUE
canRunNow_inclusive(active) == active <= maxConcurrent
canRunNow(active) == active < maxConcurrent

\* Array.prototype.pop
pop(queue) == [next |-> queue[Len(queue)], rest |-> SubSeq(queue, 1, Len(queue) - 1)]
\* Array.prototype.shift
shift(queue) == [next |-> Head(queue), rest |-> Tail(queue)]

\* processQueue leaving the last pending task behind
RECURSIVE processQueue_keepLast(_, _, _)
processQueue_keepLast(queue, active, dispatched) ==
    IF Len(queue) > 1 /\ active < maxConcurrent
    THEN processQueue_keepLast(Tail(queue), active + 1, Append(dispatched, Head(queue)))
    ELSE [queue |-> queue, active |-> active, dispatched |-> dispatched]

\* processQueue: entering run() for a dispatched task increments activeRequests
\* before the loop condition is evaluated again.
RECURSIVE processQueue(_, _, _)
processQueue(queue, active, dispatched) ==
    IF Len(queue) > 0 /\ active < maxConcurrent
    THEN LET s == shift(queue)
         IN  processQueue(s.rest, active + 1, Append(dispatched, s.next))
    ELSE [queue |-> queue, active |-> active, dispatched |-> dispatched]

\* run() releasing the slot after the await inside the try block: skipped on a throw
runAfterAwait_noFinally(result, active, queue) ==
    IF result.kind = "ok"
    THEN [promise |-> result, queue |-> queue, active |-> active - 1, dispatched |-> <<>>]
    ELSE [promise |-> result, queue |-> queue, active |-> active, dispatched |-> <<>>]

\* run() whose finally block only decrements: processQueue() is not called
runAfterAwait_noDispatch(result, active, queue) ==
    [promise |-> result, queue |-> queue, active |-> active - 1, dispatched |-> <<>>]

\* run(), after `await fn()` has settled with `result`: resolve or reject the
\* caller's promise, then the finally block.
runAfterAwait(result, active, queue) ==
    LET pq == processQueue(queue, active - 1, <<>>)
    IN  [promise |-> result, queue |-> pq.queue, active |-> pq.active,
         dispatched |-> pq.dispatched]

\* ---------------------------------------------------------------- actions
\* request(path, options) -> enqueue(() => doRequest(path, options)).
\* run() enters doRequest synchronously, up to its first fetch().
request(t, limit) ==
    /\ submitted < limit
    /\ t = submitted + 1
    /\ st[t] = "idle"
    /\ submitted' = submitted + 1
    /\ IF canRunNow(activeRequests)
       THEN /\ activeRequests' = activeRequests + 1
            /\ st' = [st EXCEPT ![t] = "fetch"]
            /\ sends' = [sends EXCEPT ![t] = 1]
            /\ started' = Append(started, t)
            /\ UNCHANGED <<requestQueue, waited>>
       ELSE /\ requestQueue' = Append(requestQueue, t)
            /\ st' = [st EXCEPT ![t] = "pending"]
            /\ waited' = waited \cup {t}
            /\ UNCHANGED <<activeRequests, sends, started>>
    /\ UNCHANGED <<attempt, lastError, delay, fnResult, promise, settles,
                   sleeps, rateLimited, lastOutcome>>
    /\ UNCHANGED cloudSide

\* fetch() of task t settles with outcome o; doRequest runs to its next await
\* (a sleep, the next fetch) or to its end.
receive(t, o, jitter) ==
    /\ st[t] = "fetch"
    /\ LET it == iteration(o, attempt[t], lastError[t], jitter, t)
           ls == loopStep(attempt[t], it.lastError, t)
           pc == CASE it.next = "sleep" -> "sleep"
                   [] it.next = "finish" -> "settled"
                   [] OTHER -> ls.pc
       IN  /\ st' = [st EXCEPT ![t] = pc]
           /\ lastError' = [lastError EXCEPT ![t] = it.lastError]
           /\ delay' = [delay EXCEPT ![t] = it.delay]
           /\ attempt' = [attempt EXCEPT ![t] = IF it.next = "loop" THEN ls.attempt ELSE @]
           /\ fnResult' = [fnResult EXCEPT ![t] =
                              CASE it.next = "finish" -> it.result
                                [] it.next = "loop" -> ls.result
                                [] OTHER -> @]
           /\ sleeps' = [sleeps EXCEPT ![t] = IF it.next = "sleep" THEN @ + 1 ELSE @]
           /\ sends' = [sends EXCEPT ![t] = IF pc = "fetch" THEN @ + 1 ELSE @]
           /\ lastOutcome' = [lastOutcome EXCEPT ![t] = IF pc = "fetch" THEN NoOutcome ELSE o]
    /\ rateLimited' = [rateLimited EXCEPT ![t] =
                          IF o.kind = "response" /\ o.status \in {429, 403} THEN @ + 1 ELSE @]
    /\ UNCHANGED <<requestQueue, activeRequests, promise, settles, submitted,
                   started, waited>>
    /\ UNCHANGED cloudSide

\* The sleep() of task t ends: `continue` / end of the loop body.
wake(t) ==
    /\ st[t] = "sleep"
    /\ LET ls == loopStep(attempt[t], lastError[t], t)
       IN  /\ st' = [st EXCEPT ![t] = ls.pc]
           /\ attempt' = [attempt EXCEPT ![t] = ls.attempt]
           /\ fnResult' = [fnResult EXCEPT ![t] = ls.result]
           /\ sends' = [sends EXCEPT ![t] = IF ls.pc = "fetch" THEN @ + 1 ELSE @]
           /\ lastOutcome' = [lastOutcome EXCEPT ![t] = IF ls.pc = "fetch" THEN NoOutcome ELSE @]
    /\ delay' = [delay EXCEPT ![t] = 0]
    /\ UNCHANGED <<requestQueue, activeRequests, lastError, promise, settles,
                   sleeps, rateLimited, submitted, started, waited>>
    /\ UNCHANGED cloudSide

\* run() of task t resumes after `await fn()`: resolve/reject, activeRequests--,
\* processQueue(). The frame of doRequest and what was observed of it are gone.
runSettle(t) ==
    /\ st[t] = "settled"
    /\ LET r == runAfterAwait(fnResult[t], activeRequests, requestQueue)
           D == Range(r.dispatched)
       IN  /\ promise' = [promise EXCEPT ![t] = r.promise]
           /\ requestQueue' = r.queue
           /\ activeRequests' = r.active
           /\ st' = [u \in Tasks |-> IF u = t THEN "done"
                                     ELSE IF u \in D THEN "fetch" ELSE st[u]]
           /\ sends' = [Upd(sends, D, 1) EXCEPT ![t] = 0]
           /\ started' = started \o r.dispatched
    /\ settles' = [settles EXCEPT ![t] = @ + 1]
    /\ attempt' = [attempt EXCEPT ![t] = 0]
    /\ lastError' = [lastError EXCEPT ![t] = Null]
    /\ sleeps' = [sleeps EXCEPT ![t] = 0]
    /\ rateLimited' = [rateLimited EXCEPT ![t] = 0]
    /\ lastOutcome' = [lastOutcome EXCEPT ![t] = NoOutcome]
    /\ UNCHANGED <<delay, fnResult, submitted, waited>>
    /\ UNCHANGED cloudSide

Submit == \E t \in Tasks : request(t, MaxTasks)
Receive == \E t \in Tasks : \E o \in QueueOutcomes : \E j \in QueueJitters : receive(t, o, j)
Wake == \E t \in Tasks : wake(t)
Settle == \E t \in Tasks : runSettle(t)

Next == Submit \/ Receive \/ Wake \/ Settle
Spec == Init /\ [][Next]_vars

\* Every fetch() eventually settles, every timer fires, every continuation runs.
Fairness ==
    \A t \in Tasks :
        /\ WF_vars(\E o \in FairOutcomes : \E j \in QueueJitters : receive(t, o, j))
        /\ WF_vars(wake(t))
        /\ WF_vars(runSettle(t))
FairSubmit == \E t \in Tasks : request(t, FairTasks)
FairReceive == \E t \in Tasks : \E o \in FairOutcomes : \E j \in QueueJitters : receive(t, o, j)
FairNext == FairSubmit \/ FairReceive \/ Wake \/ Settle
FairSpec == Init /\ [][FairNext]_vars /\ Fairness

\* One request at a time, every outcome of an attempt.
ReqSubmit == \E t \in Tasks : request(t, ReqTasks)
ReqReceive == \E t \in Tasks : \E o \in Outcomes : \E j \in Jitters : receive(t, o, j)
ReqNext == ReqSubmit \/ ReqReceive \/ Wake \/ Settle
ReqSpec == Init /\ [][ReqNext]_vars

TypeOK ==
    /\ activeRequests \in 0 .. MaxTasks
    /\ \A t \in Tasks : st[t] \in {"idle", "pending", "fetch", "sleep", "settled", "done"}

\* ---------------------------------------------------- CloudClient.request

parseRateLimitHeaders(rate) ==
    IF truthy(rate.limit) /\ truthy(rate.remaining) /\ truthy(rate.reset)
    THEN Snapshot(parseInt(rate.limit.text), parseInt(rate.remaining.text),
                  parseInt(rate.reset.text))
    ELSE NoSnapshot

\* the snapshot refreshed only from responses that are ok
trackRateLimit_okOnly(o, held) ==
    IF ok(o.status) THEN parseRateLimitHeaders(o.rate) ELSE held
\* the snapshot kept when the response's headers give none
trackRateLimit_keepOnMissing(o, held) ==
    IF parseRateLimitHeaders(o.rate) = NoSnapshot THEN held ELSE parseRateLimitHeaders(o.rate)
\* this.lastRateLimit = parseRateLimitHeaders(response.headers)
trackRateLimit(o, held) == parseRateLimitHeaders(o.rate)

hetznerErrorOf(resp) ==
    LET hErr == IF resp.body.json /\ resp.body.error THEN resp.body ELSE NoJson
    IN  HetznerApiError(resp.status,
                        IF hErr.code # Null THEN hErr.code ELSE "unknown",
                        IF hErr.message # Null THEN <<hErr.message>>
                        ELSE <<statusText(resp.status)>>)

\* request retrying by itself when the server answers 429
cloudStep_retry429(o, held) ==
    IF o.kind = "response" /\ o.status = 429
    THEN [next |-> "fetch", result |-> NoResult, snapshot |-> trackRateLimit(o, held)]
    ELSE [next |-> "finish", result |-> Returned("{}"), snapshot |-> held]

\* The body of request from the moment fetch() settles with outcome o.
cloudStep(o, held) ==
    IF o.kind = "abort"
    THEN [next |-> "finish", snapshot |-> held,
          result |-> HetznerApiError(0, "TIMEOUT",
                         <<"Request timed out after", ToString(timeout), "ms">>)]
    ELSE IF o.kind = "neterr"
    THEN [next |-> "finish", snapshot |-> held, result |-> Rethrown(o.msg)]
    ELSE LET snap == trackRateLimit(o, held)
         IN  IF ~ok(o.status)
             THEN [next |-> "finish", snapshot |-> snap, result |-> hetznerErrorOf(o)]
             ELSE IF isEmptyResponse(o)
             THEN [next |-> "finish", snapshot |-> snap, result |-> Returned("{}")]
             ELSE IF o.body.json
             THEN [next |-> "finish", snapshot |-> snap, result |-> Returned(o.body.value)]
             ELSE [next |-> "finish", snapshot |-> snap,
                   result |-> Rethrown("Unexpected end of JSON input")]

\* the warning also given at the threshold
rateLimitWarning_inclusive(held) ==
    IF held.held /\ held.remaining <= 100
    THEN <<"Rate limit:", ToString(held.remaining), "/", ToString(held.limit),
           "requests remaining. Resets at", ToString(held.reset * 1000)>>
    ELSE NoWarning

rateLimitWarning(held) ==
    IF held.held /\ held.remaining < 100
    THEN <<"Rate limit:", ToString(held.remaining), "/", ToString(held.limit),
           "requests remaining. Resets at", ToString(held.reset * 1000)>>
    ELSE NoWarning

\* CloudClient.request(path, options), up to its fetch().
cloudRequest(c) ==
    /\ cst[c] = "idle"
    /\ \A b \in Calls : b < c => cst[b] # "idle"
    /\ cst' = [cst EXCEPT ![c] = "fetch"]
    /\ csends' = [csends EXCEPT ![c] = 1]
    /\ UNCHANGED <<lastRateLimit, cresult, responses, lastHeaders, coutcome,
                   warning, warnedOn>>
    /\ UNCHANGED <<robotVars, pageVars, pollVars, formVars, toolVars>>

\* fetch() of call c settles with outcome o; request runs to its end.
cloudReceive(c, o) ==
    /\ cst[c] = "fetch"
    /\ LET step == cloudStep(o, lastRateLimit)
       IN  /\ lastRateLimit' = step.snapshot
           /\ cst' = [cst EXCEPT ![c] = IF step.next = "fetch" THEN "fetch" ELSE "done"]
           /\ cresult' = [cresult EXCEPT ![c] = step.result]
           /\ csends' = [csends EXCEPT ![c] = IF step.next = "fetch" THEN @ + 1 ELSE @]
    /\ coutcome' = [coutcome EXCEPT ![c] = o]
    /\ responses' = IF o.kind = "response" THEN responses + 1 ELSE responses
    /\ lastHeaders' = IF o.kind = "response" THEN o.rate ELSE lastHeaders
    /\ UNCHANGED <<warning, warnedOn>>
    /\ UNCHANGED <<robotVars, pageVars, pollVars, formVars, toolVars>>

\* CloudClient.rateLimitWarning()
warn ==
    /\ warning' = rateLimitWarning(lastRateLimit)
    /\ warnedOn' = lastRateLimit
    /\ UNCHANGED <<lastRateLimit, cst, cresult, csends, responses, lastHeaders, coutcome>>
    /\ UNCHANGED <<robotVars, pageVars, pollVars, formVars, toolVars>>

CloudCall == \E c \in Calls : cloudRequest(c)
CloudReceive == \E c \in Calls : \E o \in CloudOutcomes : cloudReceive(c, o)
Warn == warn
CloudNext == CloudCall \/ CloudReceive \/ Warn
CloudSpec == Init /\ [][CloudNext]_vars

\* Both clients answered by 2xx responses only.
SuccessOutcomes == { o \in Outcomes : o.kind = "response" /\ ok(o.status) }
CloudSuccessOutcomes ==
    { o \in CloudOutcomes : o.kind = "response" /\ ok(o.status) /\ o.rate = NoRateHeaders }
BodyReceive == \E t \in Tasks : \E o \in SuccessOutcomes : \E j \in QueueJitters : receive(t, o, j)
BodyCloudReceive == \E c \in Calls : \E o \in CloudSuccessOutcomes : cloudReceive(c, o)
BodyNext == ReqSubmit \/ BodyReceive \/ Wake \/ Settle \/ CloudCall \/ BodyCloudReceive
BodySpec == Init /\ [][BodyNext]_vars

\* ------------------------------------------------- CloudClient.requestAll
\* allItems.push(...items), with the items put in front
pushItems_front(all, items) == items \o all
\* allItems.push(...items)
pushItems(all, items) == all \o items

\* !meta?.pagination?.next_page
noNextPage(body) == body.next = NoPage

\* requestAll catching a failed page and returning what it has collected
pageStep_partial(o, all) ==
    IF o.kind = "failure"
    THEN [next |-> "return", page |-> NoPage, allItems |-> all, result |-> AllItems(all)]
    ELSE LET items == IF o.hasItems THEN pushItems(all, o.items) ELSE all
         IN  IF noNextPage(o)
             THEN [next |-> "return", page |-> NoPage, allItems |-> items,
                   result |-> AllItems(items)]
             ELSE [next |-> "fetch", page |-> o.next, allItems |-> items,
                   result |-> NoItems]

\* The loop body of requestAll from the moment this.request settles.
pageStep(o, all) ==
    IF o.kind = "failure"
    THEN [next |-> "throw", page |-> NoPage, allItems |-> all, result |-> Rejected(o.error)]
    ELSE LET items == IF o.hasItems THEN pushItems(all, o.items) ELSE all
         IN  IF noNextPage(o)
             THEN [next |-> "return", page |-> NoPage, allItems |-> items,
                   result |-> AllItems(items)]
             ELSE [next |-> "fetch", page |-> o.next, allItems |-> items,
                   result |-> NoItems]

\* requestAll(path, key, params), up to the request for page 1.
requestAll ==
    /\ pgSt = "idle"
    /\ pgSt' = "fetch"
    /\ page' = 1
    /\ allItems' = <<>>
    /\ pagesRequested' = <<[page |-> 1, per_page |-> perPage]>>
    /\ UNCHANGED <<pgResult, served>>
    /\ UNCHANGED <<robotVars, cloudVars, pollVars, formVars, toolVars>>

\* this.request for the current page settles with o; requestAll runs to its
\* next request or to its end.
pageReceive(o) ==
    /\ pgSt = "fetch"
    /\ LET step == pageStep(o, allItems)
       IN  /\ step.next = "fetch" => Len(pagesRequested) < MaxPageCalls
           /\ pgSt' = IF step.next = "fetch" THEN "fetch" ELSE "done"
           /\ page' = IF step.next = "fetch" THEN step.page ELSE page
           /\ allItems' = step.allItems
           /\ pgResult' = step.result
           /\ pagesRequested' =
                 IF step.next = "fetch"
                 THEN Append(pagesRequested, [page |-> step.page, per_page |-> perPage])
                 ELSE pagesRequested
    /\ served' = Append(served, [page |-> page, body |-> o])
    /\ lastRateLimit' = IF o.kind = "page" THEN parseRateLimitHeaders(PageRate)
                        ELSE lastRateLimit
    /\ UNCHANGED <<cst, cresult, csends, responses, lastHeaders, coutcome,
                   warning, warnedOn>>
    /\ UNCHANGED <<robotVars, pollVars, formVars, toolVars>>

RequestAll == requestAll
PageReceive == \E o \in PageOutcomes(page) : pageReceive(o)
PageNext == RequestAll \/ PageReceive
PageSpec == Init /\ [][PageNext]_vars

\* ------------------------------------------------- CloudClient.pollAction
Min(a, b) == IF a < b THEN a ELSE b

\* the loop condition, testing the clock instead of the elapsed time
withinDeadline_absolute(t, t0, tmo) == t < tmo
\* the loop condition letting a fetch start when the whole timeout has elapsed
withinDeadline_inclusive(t, t0, tmo) == t - t0 <= tmo
\* Date.now() - start < timeoutMs
withinDeadline(t, t0, tmo) == t - t0 < tmo

\* Math.min(delay * 1.5, 5000), the cap ten times as large
nextDelay_cap50000(d) == Min((d * 3) \div 2, 50000)
\* Math.min(delay * 1.5, 5000), the factor 2 instead of 1.5
nextDelay_doubling(d) == Min(d * 2, delayCap)
\* Math.min(delay * 1.5, 5000); delay * 1.5 is above the cap whenever it is
\* not a whole number
nextDelay(d) == Min((d * 3) \div 2, delayCap)

\* result.action.status === 'success' || ... === 'error', success only
isTerminal_successOnly(a) == a.status = "success"
\* result.action.status === 'success' || result.action.status === 'error'
isTerminal(a) == a.status = "success" \/ a.status = "error"

\* the loop body with the fetch in a try block whose catch falls through to the sleep
pollStep_absorbs(o, res) ==
    IF o.kind = "failure" THEN [next |-> "sleep", result |-> res]
    ELSE IF isTerminal(o.action) THEN [next |-> "done", result |-> PollReturned(o.action)]
    ELSE [next |-> "sleep", result |-> res]
\* The loop body from the moment this.request settles with o: a throw leaves
\* pollAction, a terminal action is returned, anything else sleeps.
pollStep(o, res) ==
    IF o.kind = "failure" THEN [next |-> "done", result |-> PollRejected(o.error)]
    ELSE IF isTerminal(o.action) THEN [next |-> "done", result |-> PollReturned(o.action)]
    ELSE [next |-> "sleep", result |-> res]

\* The loop test at time t: start the next fetch, or throw POLL_TIMEOUT.
loopTest(t, t0, id, tmo) ==
    IF withinDeadline(t, t0, tmo)
    THEN /\ plSt' = "fetch"
         /\ fetchedAt' = Append(fetchedAt, t - t0)
         /\ plResult' = NoPoll
    ELSE /\ plSt' = "done"
         /\ fetchedAt' = fetchedAt
         /\ plResult' = PollRejected(PollTimeout(id, tmo))

\* pollAction(id, tmo) called at time t0, up to its first await.
pollAction(id, tmo, t0) ==
    /\ plSt = "idle"
    /\ now' = t0
    /\ start' = t0
    /\ pdelay' = initialDelay
    /\ actionId' = id
    /\ timeoutMs' = tmo
    /\ loopTest(t0, t0, id, tmo)
    /\ UNCHANGED <<plSleeps, observed, lastFetchMs>>
    /\ UNCHANGED <<robotVars, cloudVars, pageVars, formVars, toolVars>>

\* The fetch settles with o after ms milliseconds; pollAction returns, rejects
\* or starts sleep(delay).
pollFetched(o, ms) ==
    /\ plSt = "fetch"
    /\ now' = now + ms
    /\ lastFetchMs' = ms
    /\ observed' = Append(observed, o)
    /\ LET step == pollStep(o, plResult)
       IN  /\ plSt' = step.next
           /\ plResult' = step.result
           /\ plSleeps' = IF step.next = "sleep" THEN Append(plSleeps, pdelay)
                          ELSE plSleeps
    /\ lastRateLimit' = IF o.responded THEN parseRateLimitHeaders(PageRate)
                        ELSE lastRateLimit
    /\ UNCHANGED <<start, pdelay, actionId, timeoutMs, fetchedAt>>
    /\ UNCHANGED <<cst, cresult, csends, responses, lastHeaders, coutcome,
                   warning, warnedOn>>
    /\ UNCHANGED <<robotVars, pageVars, formVars, toolVars>>

\* The timer of sleep(delay) fires; the delay grows and the loop test runs.
pollWake ==
    /\ plSt = "sleep"
    /\ now' = now + pdelay
    /\ pdelay' = nextDelay(pdelay)
    /\ loopTest(now + pdelay, start, actionId, timeoutMs)
    /\ UNCHANGED <<start, actionId, timeoutMs, plSleeps, observed, lastFetchMs>>
    /\ UNCHANGED <<robotVars, cloudVars, pageVars, formVars, toolVars>>

PollCall == \E id \in ActionIds : \E tmo \in Timeouts : \E t0 \in CallTimes :
                pollAction(id, tmo, t0)
PollFetched == \E o \in PollOutcomes(actionId) : \E ms \in FetchDurations :
                   pollFetched(o, ms)
PollWake == pollWake
PollNext == PollCall \/ PollFetched \/ PollWake
PollSpec == Init /\ [][PollNext]_vars

\* Every fetch settles and every timer fires.
PollFairness == WF_vars(PollFetched) /\ WF_vars(PollWake)
PollFairSpec == Init /\ [][PollNext]_vars /\ PollFairness

\* --------------------------------------------- RobotClient.flattenFormData
\* value === undefined || value === null
isNullish(v) == v.tag = "null" \/ v.tag = "undefined"
\* typeof item === 'object' && item !== null
isObjectLike(v) == v.tag = "object" \/ v.tag = "array"

\* `${prefix}[${key}]`, the segment left unbracketed
bracket_bare(prefix, key) == prefix \o key
\* `${prefix}[${key}]`
bracket(prefix, key) == prefix \o "[" \o key \o "]"

\* prefix ? `${prefix}[${key}]` : key
fullKeyOf(prefix, key) == IF prefix # "" THEN bracket(prefix, key) ELSE key

\* the pairs of later entries appended before those of earlier ones
appendAfter_reversed(earlier, later) == later \o earlier
\* formData.append order: what an earlier entry appended precedes what a
\* later entry appends
appendAfter(earlier, later) == earlier \o later

RECURSIVE flattenFormData(_, _)
RECURSIVE forEach(_, _, _)
\* value.forEach((item, index) => ...) from element index on
forEach(items, fullKey, index) ==
    IF items = <<>> THEN <<>>
    ELSE LET item == Head(items).v
             itemKey == bracket(fullKey, ToString(index))
             here == IF isObjectLike(item)
                     THEN flattenFormData(item.kids, itemKey)
                     ELSE <<[key |-> itemKey, value |-> item.text]>>
         IN  appendAfter(here, forEach(Tail(items), fullKey, index + 1))
\* flattenFormData(formData, obj, prefix), as the pairs it appends;
\* entries is Object.entries(obj)
flattenFormData(entries, prefix) ==
    IF entries = <<>> THEN <<>>
    ELSE LET key == Head(entries).k
             value == Head(entries).v
             fullKey == fullKeyOf(prefix, key)
             here == IF isNullish(value) THEN <<>>
                     ELSE IF value.tag = "array" THEN forEach(value.kids, fullKey, 0)
                     ELSE IF value.tag = "object" THEN flattenFormData(value.kids, fullKey)
                     ELSE <<[key |-> fullKey, value |-> value.text]>>
         IN  appendAfter(here, flattenFormData(Tail(entries), prefix))

\* doRequest: if (body) { formData = new URLSearchParams();
\* this.flattenFormData(formData, body); ... }
encodeBody ==
    /\ ~encoded
    /\ formData' = flattenFormData(formInput.kids, "")
    /\ encoded' = TRUE
    /\ UNCHANGED formInput
    /\ UNCHANGED <<robotVars, cloudVars, pageVars, pollVars, toolVars>>

\* doRequest is handed any of the request bodies.
FormInit ==
    /\ RobotInit /\ CloudInit /\ PageInit /\ PollInit /\ ToolIdle
    /\ formInput \in FormBodies
    /\ formData = <<>>
    /\ encoded = FALSE
EncodeBody == encodeBody
FormNext == EncodeBody
FormSpec == FormInit /\ [][FormNext]_vars

\* ----------------------------------------------------- main and tool calls
\* main() up to server.connect: loadConfig, the clients, registerAllTools.
main ==
    /\ phase = "boot"
    /\ LET config == loadConfig(env)
           readOnly == readOnlyOf(config)
       IN  IF config.exit
           THEN /\ phase' = "exited"
                /\ UNCHANGED <<clients, registered>>
           ELSE /\ phase' = "serving"
                /\ clients' = [cloud |-> config.cloud, robot |-> config.robot]
                /\ registered' = registerAllTools(config.cloud, config.robot, readOnly)
    /\ UNCHANGED <<env, call, stage, sent, collection, received, toPoll, polled,
                   finals, written, outcome, reply>>
    /\ UNCHANGED <<robotVars, cloudVars, pageVars, pollVars, formVars>>

\* The arguments a caller can pass to a tool: confirm (false when omitted),
\* a JSON argument that parses or does not, a page (NoPage when omitted).
Args(tool) ==
    [ confirm : IF tool.method = "GET" THEN {FALSE} ELSE BOOLEAN,
      json : IF tool.parses THEN {"valid", "invalid"} ELSE {"valid"},
      page : IF tool.pageArg THEN {NoPage} \cup (1 .. MaxListPages) ELSE {NoPage} ]
\* The number of pages the collection behind the tool's endpoint has.
Collections(tool) == IF tool.verb = "list" THEN 1 .. MaxListPages ELSE {1}

\* the status of an action in the response to the request that started it
InitialStatuses == {"running", "success"}
\* the status of an action pollAction returns
FinalStatuses == {"success", "error"}
\* The bodies the tool's request can resolve with: the action fields its result
\* type admits, each present or not (an action is written as its id; status
\* is the status the actions of the body have).
Bodies(tool) ==
    [ action : IF "action" \in tool.admits THEN {0, 1} ELSE {0},
      actions : IF "actions" \in tool.admits
                THEN { [i \in 1 .. n |-> 1 + i] : n \in 0 .. MaxActions }
                ELSE {<<>>},
      next_actions : IF "next_actions" \in tool.admits THEN {<<>>, <<9>>} ELSE {<<>>},
      status : IF tool.admits = {} THEN {"running"} ELSE InitialStatuses ]
\* every action a body carries
actionsOf(b) ==
    (IF b.action # 0 THEN {b.action} ELSE {}) \cup Range(b.actions) \cup Range(b.next_actions)

\* What the client's request can throw.
Errors(api) ==
    IF api = "robot"
    THEN { newRobotApiError(404, "NOT_FOUND", "m1", "/p"),
           newRobotApiError(0, "TIMEOUT",
               "Request timed out after " \o ToString(timeout) \o "ms", "/p"),
           newRobotApiError(0, "NETWORK",
               "Request failed after " \o ToString(maxRetries) \o " attempts: e1", "/p") }
    ELSE { newHetznerApiError(404, "not_found", "m1", NoDetails),
           newHetznerApiError(422, "invalid_input", "m1", "[1]"),
           newHetznerApiError(0, "TIMEOUT",
               "Request timed out after " \o ToString(timeout) \o "ms", NoDetails),
           newError("fetch failed"),
           thrownValue("e1") }
\* pollAction(actionId, timeoutMs = 300_000)
defaultTimeoutMs == 300000
\* What pollAction(id) can throw.
PollErrors(id) ==
    { newHetznerApiError(0, "POLL_TIMEOUT",
          "Action " \o ToString(id) \o " did not complete within "
              \o ToString(defaultTimeoutMs) \o "ms", NoDetails),
      newHetznerApiError(404, "not_found", "m1", NoDetails) }

\* handler(args) settles and the registered callback returns.
settle(o) ==
    /\ stage' = "done"
    /\ outcome' = o
    /\ reply' = createRegistrar(o)

\* The handler from its JSON.parse calls to its request.
buildAndSend(tool, args, sentSoFar) ==
    IF tool.parses /\ args.json = "invalid"
    THEN /\ settle(Threw(newError("Unexpected token")))
         /\ sent' = sentSoFar
    ELSE /\ stage' = "request"
         /\ sent' = Append(sentSoFar, tool.method)
         /\ outcome' = NotSettled
         /\ reply' = NoReply

\* The pages of the collection whose items the handler's text holds.
pagesOf(tool, args, n) ==
    IF tool.verb # "list" THEN {}
    ELSE IF tool.fetch = "requestAll" THEN 1 .. n
    ELSE {IF args.page # NoPage THEN args.page ELSE 1} \cap (1 .. n)

\* A client calls a registered tool; its handler runs to its first await.
callTool(tool, args, n) ==
    /\ phase = "serving"
    /\ stage = "idle"
    /\ tool \in registered
    /\ call' = [tool |-> tool, args |-> args]
    /\ collection' = n
    /\ received' = NoBody
    /\ toPoll' = <<>>
    /\ polled' = {}
    /\ finals' = {}
    /\ written' = {}
    /\ IF tool.confirm /\ ~args.confirm
       THEN /\ settle(Gave("not confirmed", {}))
            /\ sent' = <<>>
       ELSE IF tool.prefetch
       THEN /\ stage' = "prefetch"
            /\ sent' = <<"GET">>
            /\ outcome' = NotSettled
            /\ reply' = NoReply
       ELSE buildAndSend(tool, args, <<>>)
    /\ UNCHANGED <<env, phase, clients, registered>>
    /\ UNCHANGED <<robotVars, cloudVars, pageVars, pollVars, formVars>>

\* The requestAll of the catalogue settles: resolved (threw FALSE) or with a throw.
prefetched(threw, e) ==
    /\ stage = "prefetch"
    /\ IF threw
       THEN /\ settle(Threw(e))
            /\ sent' = sent
       ELSE buildAndSend(call.tool, call.args, sent)
    /\ UNCHANGED <<env, phase, clients, registered, call, collection, received,
                   toPoll, polled, finals, written>>
    /\ UNCHANGED <<robotVars, cloudVars, pageVars, pollVars, formVars>>

\* The handler's request throws e.
requestFailed(e) ==
    /\ stage = "request"
    /\ settle(Threw(e))
    /\ UNCHANGED <<env, phase, clients, registered, call, sent, collection, received,
                   toPoll, polled, finals, written>>
    /\ UNCHANGED <<robotVars, cloudVars, pageVars, pollVars, formVars>>

\* The handler's request resolves with b; the handler runs to its first
\* pollAction, or to its end.
requestResolved(b) ==
    /\ stage = "request"
    /\ received' = b
    /\ LET tool == call.tool
           text == Gave("result", pagesOf(tool, call.args, collection))
           poll(ids) == /\ stage' = "poll"
                        /\ toPoll' = ids
                        /\ UNCHANGED <<outcome, reply>>
           end(o) == settle(o) /\ toPoll' = toPoll
       IN  CASE tool.polls = "action" ->
                  IF b.action = 0
                  THEN end(Threw(newError("Cannot read properties of undefined")))
                  ELSE poll(<<b.action>>)
             [] tool.polls = "ifAction" ->
                  IF b.action = 0 THEN end(text) ELSE poll(<<b.action>>)
             [] tool.polls = "actions" ->
                  IF b.actions = <<>> THEN end(text) ELSE poll(b.actions)
             [] OTHER -> end(text)
    /\ UNCHANGED <<env, phase, clients, registered, call, sent, collection, polled,
                   finals, written>>
    /\ UNCHANGED <<robotVars, cloudVars, pageVars, pollVars, formVars>>

\* every handler writing into its text what pollAction returned
shownActions_polled(tool, body, ids, returned) == returned
\* The polled actions as JSON.stringify puts them into the handler's text.
shownActions(tool, body, ids, returned) ==
    IF tool.shows = "polled" THEN returned
    ELSE IF tool.shows = "initial" THEN {Action(id, body.status) : id \in ids}
    ELSE {}

\* pollAction of the next action settles: resolved with the action in status s
\* (threw FALSE) or with a throw; after the last one the handler builds its text.
pollSettled(threw, e, s) ==
    /\ stage = "poll"
    /\ IF threw
       THEN /\ settle(Threw(e))
            /\ UNCHANGED <<toPoll, polled, finals, written>>
       ELSE /\ polled' = polled \cup {Head(toPoll)}
            /\ finals' = finals \cup {Action(Head(toPoll), s)}
            /\ toPoll' = Tail(toPoll)
            /\ IF Tail(toPoll) = <<>>
               THEN /\ settle(Gave("result", {}))
                    /\ written' = shownActions(call.tool, received, polled', finals')
               ELSE UNCHANGED <<stage, outcome, reply, written>>
    /\ UNCHANGED <<env, phase, clients, registered, call, sent, collection, received>>
    /\ UNCHANGED <<robotVars, cloudVars, pageVars, pollVars, formVars>>

\* The server sends what the callback returned to the client; nothing of the
\* call is kept.
respond ==
    /\ stage = "done"
    /\ stage' = "idle"
    /\ call' = NoCall
    /\ sent' = <<>>
    /\ collection' = 1
    /\ received' = NoBody
    /\ toPoll' = <<>>
    /\ polled' = {}
    /\ finals' = {}
    /\ written' = {}
    /\ outcome' = NotSettled
    /\ reply' = NoReply
    /\ UNCHANGED <<env, phase, clients, registered>>
    /\ UNCHANGED <<robotVars, cloudVars, pageVars, pollVars, formVars>>

\* The process is started with any of the environments.
ToolInit ==
    /\ RobotInit /\ CloudInit /\ PageInit /\ PollInit /\ FormIdle
    /\ env \in Envs
    /\ ToolBoot
Main == main
CallTool == \E tool \in registered : \E args \in Args(tool) : \E n \in Collections(tool) :
                callTool(tool, args, n)
Prefetched == prefetched(FALSE, NoError) \/ \E e \in Errors("cloud") : prefetched(TRUE, e)
RequestFailed == \E e \in Errors(call.tool.api) : requestFailed(e)
RequestResolved == \E b \in Bodies(call.tool) : requestResolved(b)
PollSettled == \/ \E s \in FinalStatuses : pollSettled(FALSE, NoError, s)
               \/ stage = "poll" /\ \E e \in PollErrors(Head(toPoll)) :
                      pollSettled(TRUE, e, "running")
Respond == respond
ToolNext == Main \/ CallTool \/ Prefetched \/ RequestFailed \/ RequestResolved
               \/ PollSettled \/ Respond
ToolSpec == ToolInit /\ [][ToolNext]_vars

\* ------------------------------------------------------------ properties
Running == {t \in Tasks : st[t] \in {"fetch", "sleep"}}
Completed == {t \in Tasks : st[t] = "done"}
SlotHolders == {t \in Tasks : st[t] \in {"fetch", "sleep", "settled"}}

\* C1: at most maxConcurrent tasks execute doRequest at any instant, and a
\* task beyond the first maxConcurrent has been started only after as many
\* earlier tasks have completed.
C1_ConcurrencyLimit ==
    /\ Cardinality(Running) <= maxConcurrent
    /\ Len(started) <= Cardinality(Completed) + maxConcurrent
C1_Witness ==
    /\ 3 \in waited
    /\ st[3] = "fetch"
    /\ Cardinality(Running) = maxConcurrent
    /\ Cardinality(Completed) = 1
    /\ Len(requestQueue) = 1

\* C2: tasks that waited in requestQueue are started in the order they were
\* submitted (task ids are submission order).
C2_FifoStart ==
    \A i, j \in 1 .. Len(started) :
        (i < j /\ started[i] \in waited /\ started[j] \in waited)
            => started[i] < started[j]
C2_Witness ==
    /\ {3, 4} \subseteq waited
    /\ {3, 4} \subseteq Range(started)
    /\ st[2] = "done"
    /\ 1 \in Running

\* C3: every completion, success or failure, releases exactly one slot and
\* lets a pending task in: activeRequests counts exactly the tasks started
\* and not yet completed, a task waits only while all slots are taken, and
\* once every submitted task has settled activeRequests is 0 and
\* requestQueue is empty.
C3_SlotReleased ==
    /\ activeRequests = Cardinality(SlotHolders)
    /\ Len(requestQueue) > 0 => activeRequests >= maxConcurrent
    /\ (\A t \in Tasks : st[t] \in {"idle", "done"})
           => (activeRequests = 0 /\ requestQueue = <<>>)
C3_Witness ==
    /\ submitted = MaxTasks
    /\ \A t \in Tasks : st[t] = "done"
    /\ \E t \in Tasks : promise[t].kind = "RobotApiError"
    /\ \E t \in Tasks : promise[t].kind = "ok"
    /\ waited # {}
    /\ activeRequests = 0

\* C4: no submitted task is dropped. Under FairSpec every submitted task is
\* eventually started and finishes with its caller's promise settled, exactly
\* once, by the result of that task's own doRequest.
Delivered(t) ==
    /\ st[t] = "done"
    /\ t \in Range(started)
    /\ settles[t] = 1
    /\ promise[t] = fnResult[t]
    /\ promise[t].kind \in {"ok", "RobotApiError"}
    /\ promise[t].kind = "RobotApiError" => promise[t].path = t
C4_NoTaskDropped ==
    /\ \A t \in Tasks : (st[t] # "idle") ~> Delivered(t)
    /\ [](\A t \in Tasks : settles[t] <= 1 /\ (st[t] = "done" => Delivered(t)))
C4_Witness ==
    /\ 3 \in waited
    /\ Delivered(3)
    /\ promise[3].kind = "ok"
    /\ \E t \in Tasks : promise[t].kind = "RobotApiError"

\* ------------------------------------------- properties of one request
IsRateLimit(o) == o.kind = "response" /\ o.status \in {429, 403}
IsSuccess(o) ==
    /\ o.kind = "response" /\ o.status \in 200 .. 299
    /\ (o.status = 204 \/ o.contentLength0 \/ o.body.json)
Payload(o) == IF o.status = 204 \/ o.contentLength0 THEN "{}" ELSE o.body.value
IsHardError(o) ==
    o.kind = "response" /\ o.status \notin 200 .. 299 /\ o.status \notin {429, 403}

\* C5: one request sends at most maxRetries HTTP requests; rate-limit
\* responses and network errors advance the same attempt counter, so while the
\* request is in flight or asleep the number of sends is attempt + 1.
C5_AttemptCeiling ==
    \A t \in Tasks :
        /\ sends[t] <= maxRetries
        /\ st[t] \in {"fetch", "sleep"} => sends[t] = attempt[t] + 1
        /\ st[t] = "settled" => sends[t] = (IF attempt[t] = maxRetries THEN maxRetries
                                             ELSE attempt[t] + 1)
C5_Witness ==
    \E t \in Tasks :
        /\ st[t] = "settled" /\ sends[t] = maxRetries
        /\ rateLimited[t] = 1 /\ lastError[t] # Null
        /\ fnResult[t].code = "NETWORK"

\* C6: a 429 or 403 response is never surfaced: the request sleeps, and unless
\* the ceiling is reached sends the next attempt on waking; a later success
\* is what doRequest returns and what the caller's promise is resolved with.
C6_State ==
    \A t \in Tasks :
        /\ IsRateLimit(lastOutcome[t])
              => \/ st[t] = "sleep"
                 \/ st[t] = "settled" /\ sends[t] = maxRetries
                                      /\ fnResult[t].code = "NETWORK"
        /\ (st[t] = "settled" /\ IsSuccess(lastOutcome[t]))
              => fnResult[t] = Returned(Payload(lastOutcome[t]))
        /\ st[t] = "settled" => fnResult[t].status \notin {429, 403}
C6_Step ==
    \A t \in Tasks :
        /\ (st[t] = "sleep" /\ IsRateLimit(lastOutcome[t])
               /\ sends[t] < maxRetries /\ st'[t] # "sleep")
              => (st'[t] = "fetch" /\ sends'[t] = sends[t] + 1)
        /\ (st[t] = "settled" /\ st'[t] = "done") => promise'[t] = fnResult[t]
C6_RateLimitTransient == []C6_State /\ [][C6_Step]_vars
C6_Witness ==
    \E t \in Tasks :
        /\ st[t] = "settled" /\ rateLimited[t] = 2
        /\ fnResult[t] = Returned("v1")

C8_ApiErrorImmediate ==
    \A t \in Tasks :
        IsHardError(lastOutcome[t])
            => LET o == lastOutcome[t]
                   e == o.body.json /\ o.body.error
               IN  /\ st[t] = "settled"
                   /\ sends[t] = attempt[t] + 1
                   /\ sleeps[t] = attempt[t]
                   /\ fnResult[t].kind = "RobotApiError"
                   /\ fnResult[t].status = o.status
                   /\ fnResult[t].code =
                        (IF e /\ o.body.code # Null THEN o.body.code ELSE "UNKNOWN")
                   /\ fnResult[t].message =
                        (IF e /\ o.body.message # Null THEN <<o.body.message>>
                         ELSE <<statusText(o.status)>>)
C8_Witness ==
    \E t \in Tasks :
        /\ IsHardError(lastOutcome[t]) /\ sends[t] = 2
        /\ lastOutcome[t].body = ErrBody("c1", "m1")
        /\ fnResult[t] = RobotApiError(500, "c1", <<"m1">>, t)

\* C9: a network failure on attempt i is recorded in lastError; before the
\* last attempt the request sleeps 2^i * 1000 ms plus a jitter below 1000 ms
\* and on waking sends attempt i + 1; on the last attempt it fails at once,
\* without a further sleep.
C9_State ==
    \A t \in Tasks :
        lastOutcome[t].kind = "neterr"
            => /\ lastError[t] = lastOutcome[t].msg
               /\ \/ /\ st[t] = "sleep"
                     /\ attempt[t] < maxRetries - 1
                     /\ sleeps[t] = attempt[t] + 1
                     /\ delay[t] >= (2 ^ attempt[t]) * 1000
                     /\ delay[t] < (2 ^ attempt[t]) * 1000 + 1000
                  \/ /\ st[t] = "settled"
                     /\ sends[t] = maxRetries
                     /\ sleeps[t] = maxRetries - 1
                     /\ fnResult[t].code = "NETWORK"
C9_Step ==
    \A t \in Tasks :
        (st[t] = "sleep" /\ lastOutcome[t].kind = "neterr" /\ st'[t] # "sleep")
            => /\ st'[t] = "fetch"
               /\ attempt'[t] = attempt[t] + 1
               /\ sends'[t] = sends[t] + 1
C9_NetworkRetry == []C9_State /\ [][C9_Step]_vars
C9_Witness ==
    \E t \in Tasks :
        /\ lastOutcome[t] = FetchFailed("e2") /\ st[t] = "settled"
        /\ sends[t] = maxRetries /\ sleeps[t] = maxRetries - 1
        /\ rateLimited[t] = 0

\* C10 as claimed: when the request gives up at the attempt ceiling, the
\* error raised names the failure of the final attempt.
FailureOf(o) ==
    IF o.kind = "neterr" THEN o.msg
    ELSE IF IsRateLimit(o) THEN ToString(o.status)
    ELSE "Unexpected end of JSON input"
C10_NamesLastCause ==
    \A t \in Tasks :
        (st[t] = "settled" /\ fnResult[t].code = "NETWORK")
            => fnResult[t].message[4] = FailureOf(lastOutcome[t])

\* ------------------------------------------- properties of CloudClient
\* C11: CloudClient.request is single-attempt: whatever the outcome of its
\* fetch, the call has ended with exactly one HTTP request sent, and a 429 is
\* what the caller gets, as a HetznerApiError.
C11_SingleAttempt ==
    \A c \in Calls :
        /\ csends[c] <= 1
        /\ cst[c] = "fetch" => (csends[c] = 1 /\ coutcome[c] = NoOutcome)
        /\ coutcome[c] # NoOutcome => (cst[c] = "done" /\ csends[c] = 1)
        /\ (coutcome[c].kind = "response" /\ coutcome[c].status = 429)
              => /\ cresult[c].kind = "HetznerApiError"
                 /\ cresult[c].status = 429
C11_Witness ==
    \E c \in Calls :
        /\ cst[c] = "done" /\ csends[c] = 1
        /\ coutcome[c].status = 429
        /\ cresult[c] = HetznerApiError(429, "rate_limit_exceeded", <<"m1">>)

\* C12: once a response has been received, lastRateLimit is what the headers
\* of the most recently received response say, for 2xx and error statuses
\* alike and whatever calls are still in flight.
SnapshotOf(rate) ==
    IF \A h \in {rate.limit, rate.remaining, rate.reset} : h.present /\ h.text # <<>>
    THEN Snapshot(rate.limit.num, rate.remaining.num, rate.reset.num)
    ELSE NoSnapshot
C12_SnapshotRefreshed ==
    /\ responses = 0 => lastRateLimit = NoSnapshot
    /\ responses > 0 => lastRateLimit = SnapshotOf(lastHeaders)
C12_Witness ==
    /\ cst[1] = "done" /\ coutcome[1].status = 500
    /\ cst[2] = "done" /\ coutcome[2].status = 200
    /\ coutcome[2].rate.remaining.num = 50 /\ coutcome[2].rate.reset.present
    /\ responses = 2
    /\ lastRateLimit = Snapshot(1000, 99, 7)

\* C13: rateLimitWarning() returns a warning exactly when a snapshot is held
\* whose remaining value is below 100, and null otherwise.
C13_WarningThreshold ==
    /\ warning # NoWarning <=> (warnedOn.held /\ warnedOn.remaining < 100)
    /\ warning # NoWarning
          => (warning[2] = ToString(warnedOn.remaining) /\ warning[4] = ToString(warnedOn.limit))
C13_Witness ==
    /\ warnedOn = Snapshot(1000, 99, 7)
    /\ warning # NoWarning
C13_WitnessAtThreshold ==
    /\ warnedOn = Snapshot(1000, 100, 7)
    /\ warning = NoWarning

\* -------------------------------------------- properties of requestAll
\* The server exposes n pages: it answers page p < n with next_page p + 1 and
\* an array under the key, and any later page with no next_page.
Exposes(n) ==
    \A i \in 1 .. Len(served) :
        /\ served[i].body.kind = "page" /\ served[i].body.hasItems
        /\ served[i].body.next = (IF served[i].page < n THEN served[i].page + 1 ELSE NoPage)
RECURSIVE Concat(_)
Concat(ss) == IF ss = <<>> THEN <<>> ELSE Head(ss).body.items \o Concat(Tail(ss))

\* C14: against a server exposing n pages requestAll sends the requests for
\* pages 1, 2, ..., in that order, each with per_page 50, and when it has
\* returned it has sent exactly n of them and its result is the arrays
\* received, concatenated in page order.
C14_AllPagesInOrder ==
    \A n \in 1 .. MaxPageCalls :
        Exposes(n) =>
            /\ \A i \in 1 .. Len(pagesRequested) :
                  pagesRequested[i] = [page |-> i, per_page |-> 50]
            /\ Len(pagesRequested) <= n
            /\ pgSt = "done"
                  => /\ Len(pagesRequested) = n
                     /\ \A i \in 1 .. n : served[i].page = i
                     /\ pgResult = AllItems(Concat(served))
C14_Witness ==
    /\ pgSt = "done" /\ Exposes(3)
    /\ pgResult = AllItems(<<11, 12, 21, 22, 31, 32>>)
    /\ Len(pagesRequested) = 3

\* C15 as claimed: whatever the server answers, the page numbers requested
\* within one requestAll call are strictly increasing.
C15_PagesIncrease ==
    \A i, j \in 1 .. Len(pagesRequested) :
        i < j => pagesRequested[i].page < pagesRequested[j].page

\* -------------------------------------------- properties of pollAction
\* C16: a fetch that observes status success or error is the last one of the
\* call: pollAction has returned that very action as a normal value, with
\* status error too, one sleep fewer than fetches; when it is the first fetch
\* the call has cost one request and no sleep.
C16_TerminalReturnedAtOnce ==
    \A i \in 1 .. Len(observed) :
        (observed[i].kind = "action" /\ observed[i].action.status \in {"success", "error"})
            => /\ i = Len(observed)
               /\ plSt = "done"
               /\ plResult = PollReturned(observed[i].action)
               /\ Len(fetchedAt) = i
               /\ Len(plSleeps) = i - 1
               /\ (i = 1 => Len(fetchedAt) = 1 /\ plSleeps = <<>>)
C16_Witness ==
    /\ plSt = "done"
    /\ Len(observed) = 1
    /\ observed[1].action.status = "error"
    /\ plResult = PollReturned(Action(42, "error"))
    /\ plSleeps = <<>>
C16_WitnessLater ==
    /\ plSt = "done"
    /\ Len(observed) = 3
    /\ plResult = PollReturned(Action(7, "success"))
    /\ plSleeps = <<1000, 1500>>

AllRunning ==
    \A i \in 1 .. Len(observed) :
        observed[i].kind = "action" /\ observed[i].action.status = "running"
Elapsed == now - start
C17_State ==
    /\ (plSt = "done" /\ AllRunning)
          => plResult = PollRejected(HetznerApiError(0, "POLL_TIMEOUT",
                 <<"Action " \o ToString(actionId) \o " did not complete within "
                     \o ToString(timeoutMs) \o "ms">>))
    /\ (plSt = "done" /\ plResult.error.code = "POLL_TIMEOUT")
          => /\ AllRunning
             /\ Elapsed >= timeoutMs
             /\ IF observed = <<>> THEN Elapsed = 0
                ELSE /\ plSleeps[Len(plSleeps)] <= 5000
                     /\ Elapsed <= timeoutMs + lastFetchMs + plSleeps[Len(plSleeps)]
\* C17: a call whose fetches all return running ends, and ends with
\* POLL_TIMEOUT naming the action id; POLL_TIMEOUT is never raised before
\* timeoutMs has elapsed since the call, and once a fetch was made it is raised
\* no later than timeoutMs plus the duration of the last fetch plus the last
\* sleep, which is at most 5000 ms.
C17_PollTimeout ==
    /\ []C17_State
    /\ (plSt # "idle") ~> (plSt = "done")
C17_Witness ==
    /\ plSt = "done"
    /\ plResult = PollRejected(PollTimeout(42, 20000))
    /\ Len(observed) = 7
    /\ plSleeps[7] = 5000
    /\ Elapsed > 20000

Schedule == <<1000, 1500, 2250, 3375, 5000, 5000>>
\* C30: while the action stays running the sleeps between consecutive fetches
\* are 1000, 1500, 2250, 3375, 5000, 5000, ... ms, every later one 5000 ms,
\* nothing added to any of them; each sleep starts when its fetch has settled
\* and at most one fetch is outstanding, exactly one while the call waits for
\* a fetch.
C30_SleepSchedule ==
    /\ \A i \in 1 .. Len(plSleeps) :
          plSleeps[i] = IF i <= Len(Schedule) THEN Schedule[i] ELSE 5000
    /\ Len(fetchedAt) - Len(observed) = IF plSt = "fetch" THEN 1 ELSE 0
    /\ (plSt = "sleep") => /\ Len(plSleeps) = Len(observed)
                           /\ pdelay = plSleeps[Len(plSleeps)]
    /\ (plSt = "fetch" /\ AllRunning) => Len(plSleeps) = Len(observed)
C30_Witness ==
    /\ plSt = "fetch"
    /\ AllRunning
    /\ plSleeps = <<1000, 1500, 2250, 3375, 5000, 5000>>
    /\ Len(fetchedAt) = 7

\* ---------------------------------------- properties of flattenFormData
\* The scalar leaves of v, v sitting at child positions pos under the key
\* spelled root[segment]...[segment].
RECURSIVE LeavesOf(_, _, _)
LeavesOf(v, pos, key) ==
    IF v.tag \in {"object", "array"}
    THEN UNION { LeavesOf(v.kids[i].v, Append(pos, i), key \o "[" \o v.kids[i].k \o "]") :
                    i \in 1 .. Len(v.kids) }
    ELSE {[pos |-> pos, key |-> key, text |-> v.text, tag |-> v.tag]}
BodyLeaves ==
    UNION { LeavesOf(formInput.kids[i].v, <<i>>, formInput.kids[i].k) :
               i \in 1 .. Len(formInput.kids) }
AllDefined == \A l \in BodyLeaves : l.tag \notin {"null", "undefined"}
\* p comes before q in document order
Before(p, q) ==
    \E n \in 1 .. Min(Len(p), Len(q)) :
        p[n] < q[n] /\ \A m \in 1 .. n - 1 : p[m] = q[m]

\* C18: for a body without null and undefined, the encoder emits exactly one
\* pair per scalar leaf and nothing else; the key of the pair is the root
\* property name followed by one bracketed segment per nesting step and its
\* value the string form of the leaf; {rules:{input:[{action:"accept"}]}}
\* gives exactly ("rules[input][0][action]", "accept").
C18_OnePairPerLeaf ==
    encoded =>
        /\ AllDefined =>
              /\ Len(formData) = Cardinality(BodyLeaves)
              /\ \A l \in BodyLeaves :
                    Cardinality({ i \in 1 .. Len(formData) :
                        formData[i] = [key |-> l.key, value |-> l.text] }) = 1
        /\ formInput = Example
              => formData = <<[key |-> "rules[input][0][action]", value |-> "accept"]>>
C18_Witness ==
    /\ encoded
    /\ formInput = Example
    /\ formData = <<[key |-> "rules[input][0][action]", value |-> "accept"]>>
C18_WitnessNested ==
    /\ encoded /\ AllDefined
    /\ formData = <<[key |-> "b[0][a]", value |-> "1"], [key |-> "b[0][b]", value |-> "true"],
                    [key |-> "a", value |-> "1"]>>

\* C19 as claimed: no pair is emitted for a null or undefined value, wherever
\* it sits in the body.
C19_NullsOmitted ==
    encoded =>
        \A l \in BodyLeaves :
            l.tag \in {"null", "undefined"}
                => \A i \in 1 .. Len(formData) : formData[i].key # l.key

\* C20: the pairs appear in document order of the leaves they come from:
\* properties in the order of the object, elements by ascending index, the
\* pairs of a subtree before those of any later sibling; the order of the key
\* strings plays no part.
C20_SourceOrder ==
    encoded =>
        \A i, j \in 1 .. Len(formData) :
            i < j => \E li, lj \in BodyLeaves :
                        /\ li.key = formData[i].key
                        /\ lj.key = formData[j].key
                        /\ Before(li.pos, lj.pos)
C20_Witness ==
    /\ encoded
    /\ formData = <<[key |-> "b[b]", value |-> "accept"], [key |-> "b[a]", value |-> "1"],
                    [key |-> "a", value |-> "1"]>>

\* ------------------------------------------ properties of the backoff delay
\* The response a sleeping request is backing off from.
BackingOff(t) ==
    /\ st[t] = "sleep"
    /\ lastOutcome[t].kind = "response"
    /\ lastOutcome[t].status \in {429, 403}

\* C21: a request sleeping after a 429/403 response whose Retry-After header
\* is a number h sleeps exactly h * 1000 ms, whatever the attempt index and
\* the random jitter drawn; a hint of 2 gives 2000 ms.
C21_HintIsExactDelay ==
    \A t \in Tasks :
        (BackingOff(t) /\ lastOutcome[t].retryAfter.present)
            => /\ delay[t] = lastOutcome[t].retryAfter.num * 1000
               /\ (lastOutcome[t].retryAfter.num = 2 => delay[t] = 2000)
C21_Witness ==
    \E t \in Tasks :
        /\ BackingOff(t) /\ attempt[t] = 0
        /\ lastOutcome[t].retryAfter = Header(<<2>>, 2)
        /\ delay[t] = 2000
C21_WitnessLater ==
    \E t \in Tasks :
        /\ BackingOff(t) /\ attempt[t] = 2
        /\ lastOutcome[t].retryAfter = Header(<<2>>, 2)
        /\ delay[t] = 2000

\* C22: a request sleeping without a server hint, after a 429/403 response or
\* after a network error on attempt index i, sleeps at least 2^i * 1000 ms and
\* less than 2^i * 1000 + 1000 ms: [1000, 2000) for i = 0, [2000, 3000) for
\* i = 1.
C22_BackoffWindow ==
    \A t \in Tasks :
        (st[t] = "sleep" /\ ~lastOutcome[t].retryAfter.present)
            => /\ delay[t] >= (2 ^ attempt[t]) * 1000
               /\ delay[t] < (2 ^ attempt[t]) * 1000 + 1000
               /\ (attempt[t] = 0 => delay[t] \in 1000 .. 1999)
               /\ (attempt[t] = 1 => delay[t] \in 2000 .. 2999)
C22_Witness ==
    \E t \in Tasks :
        /\ BackingOff(t) /\ ~lastOutcome[t].retryAfter.present
        /\ attempt[t] = 1 /\ delay[t] = 2999
C22_WitnessNetwork ==
    \E t \in Tasks :
        /\ st[t] = "sleep" /\ lastOutcome[t].kind = "neterr"
        /\ attempt[t] = 0 /\ delay[t] = 1000

\* ------------------------------------------- properties of empty responses
\* what a 2xx response o must make the request return, when its body, if it
\* has to be decoded, is JSON
Expected(o) == IF o.status = 204 \/ o.contentLength0 THEN Returned("{}")
               ELSE Returned(o.body.value)
Decodable(o) == o.status = 204 \/ o.contentLength0 \/ o.body.json
\* C23: in RobotClient and in CloudClient alike, a request answered by a 2xx
\* response ends with the empty result {} when the status is 204 or the
\* Content-Length header is 0, whether or not the body could be decoded, and
\* with the decoded JSON body for any other 2xx response carrying JSON.
C23_EmptyBody ==
    /\ \A t \in Tasks :
          (st[t] = "settled" /\ lastOutcome[t].kind = "response"
              /\ ok(lastOutcome[t].status) /\ Decodable(lastOutcome[t]))
             => fnResult[t] = Expected(lastOutcome[t])
    /\ \A c \in Calls :
          (cst[c] = "done" /\ coutcome[c].kind = "response"
              /\ ok(coutcome[c].status) /\ Decodable(coutcome[c]))
             => cresult[c] = Expected(coutcome[c])
C23_Witness ==
    /\ st[1] = "settled"
    /\ lastOutcome[1] = Response(200, NoHint, TRUE, NoJson)
    /\ fnResult[1] = Returned("{}")
    /\ cst[1] = "done"
    /\ coutcome[1] = CloudResponse(204, FALSE, NoJson, NoRateHeaders)
    /\ cresult[1] = Returned("{}")
    /\ cst[2] = "done"
    /\ cresult[2] = Returned("v1")

\* ------------------------------------------------ properties of the tools
\* HETZNER_MODE is unset or read_only
ReadOnlyMode == ~env.HETZNER_MODE.set \/ env.HETZNER_MODE.value = "read_only"
Mutating(tool) == tool.method \in {"POST", "PUT", "DELETE"}
\* C24: in read_only mode, the default when HETZNER_MODE is unset, no tool
\* whose handler can send a POST, PUT or DELETE request is registered, and no
\* tool call sends one; a registered tool that can send one means the mode is
\* read_write.
C24_ReadOnlyRegistersNoMutation ==
    /\ ReadOnlyMode =>
          /\ \A tool \in registered : ~Mutating(tool)
          /\ \A i \in 1 .. Len(sent) : sent[i] = "GET"
    /\ (\E tool \in registered : Mutating(tool)) => env.HETZNER_MODE = Set("read_write")
C24_Witness ==
    /\ env.HETZNER_MODE = Unset
    /\ phase = "serving"
    /\ \E tool \in registered : tool.name = "list_servers"
    /\ \E tool \in registered : tool.name = "list_robot_servers"
    /\ \A tool \in registered : tool.name \notin {"create_server", "delete_dns_zone"}
    /\ stage = "done"
    /\ call.tool.name = "get_dns_zone"
    /\ sent = <<"GET">>

Destructive(tool) ==
    tool.verb = "delete" \/ tool.name \in {"rebuild_server", "cancel_robot_server"}
\* C25: a destructive tool (delete_*, rebuild_server, cancel_robot_server)
\* called without confirm = true sends no request and answers with the
\* warning.
C25_ConfirmRequired ==
    (Destructive(call.tool) /\ ~call.args.confirm) =>
        /\ sent = <<>>
        /\ stage = "done"
        /\ reply = Reply(FALSE, "not confirmed")

CloudConfigured == isSet(env.HETZNER_CLOUD_TOKEN)
RobotConfigured == isSet(env.HETZNER_ROBOT_USER) /\ isSet(env.HETZNER_ROBOT_PASSWORD)
C26_State ==
    /\ phase = "serving" =>
          /\ (\E tool \in registered : tool.api = "cloud") <=> CloudConfigured
          /\ (\E tool \in registered : tool.api = "robot") <=> RobotConfigured
          /\ clients = [cloud |-> CloudConfigured, robot |-> RobotConfigured]
    /\ phase # "serving" =>
          /\ registered = {}
          /\ clients = [cloud |-> FALSE, robot |-> FALSE]
    /\ (~CloudConfigured /\ ~RobotConfigured) => phase # "serving"
\* C26: once main has run, Cloud and DNS tools are registered exactly when a
\* cloud token is set and Robot tools exactly when robot user and password are
\* both set, and a client exists exactly for the configured APIs; with neither
\* configured the step main takes is the exit, before any client is
\* constructed or any tool registered.
C26_ToolsForConfiguredApis ==
    /\ []C26_State
    /\ [][(phase = "boot" /\ ~CloudConfigured /\ ~RobotConfigured) => phase' = "exited"]_vars
C26_Witness ==
    /\ phase = "serving"
    /\ ~CloudConfigured
    /\ env.HETZNER_CLOUD_TOKEN = Set("")
    /\ \E tool \in registered : tool.name = "list_robot_servers"
    /\ stage = "done"
C26_WitnessExit ==
    /\ phase = "exited"
    /\ env.HETZNER_ROBOT_USER = Set("user")
    /\ env.HETZNER_ROBOT_PASSWORD = Unset
    /\ env.HETZNER_CLOUD_TOKEN = Unset

\* the text the caller is owed for some of the errors
RenderedAs(error, text) == outcome.error = error => reply.text = text
\* C27: whatever the handler of a tool throws (an API error, a timeout, a poll
\* timeout, exhausted retries, a JSON parse error, a value that is no Error),
\* the call is answered with a response flagged isError whose text is the
\* rendered message, and the process goes on serving; a call whose handler
\* returns is answered without the flag.
C27_NoErrorEscapes ==
    /\ stage = "done" => /\ reply.sent
                         /\ outcome.settled
                         /\ reply.isError <=> outcome.threw
                         /\ phase = "serving"
    /\ outcome.threw =>
          /\ stage = "done"
          /\ reply.text # ""
          /\ RenderedAs(newError("Unexpected token"), "Error: Unexpected token")
          /\ RenderedAs(thrownValue("e1"), "Error: e1")
          /\ RenderedAs(newRobotApiError(404, "NOT_FOUND", "m1", "/p"), "[Robot:404] m1 (/p)")
          /\ outcome.error.code = "NETWORK" =>
                reply.text = "[Robot:NETWORK] Request failed after 3 attempts: e1 (/p)"
          /\ (outcome.error.code = "TIMEOUT" /\ outcome.error.class = "HetznerApiError") =>
                reply.text = "Error 0 (TIMEOUT): [Hetzner:0:TIMEOUT] Request timed out after 30000ms"
          /\ outcome.error.code = "invalid_input" =>
                reply.text = "Error 422 (invalid_input): [Hetzner:422:invalid_input] m1\nDetails: [1]"
          /\ outcome.error.code = "POLL_TIMEOUT" =>
                reply.text = "Error 0 (POLL_TIMEOUT): [Hetzner:0:POLL_TIMEOUT] Action "
                                \o ToString(Head(toPoll)) \o " did not complete within 300000ms"
C27_Witness ==
    /\ stage = "done"
    /\ call.tool.name = "set_firewall_rules"
    /\ polled = {2}
    /\ outcome.threw
    /\ outcome.error.code = "POLL_TIMEOUT"
    /\ reply.isError
C27_WitnessParse ==
    /\ stage = "done"
    /\ outcome = Threw(newError("Unexpected token"))
    /\ reply = Reply(TRUE, "Error: Unexpected token")

\* C28: a mutating Cloud tool returns only when every action its response
\* carried has been polled to its end.
C28_AllActionsPolled ==
    (stage = "done" /\ call.tool.api = "cloud" /\ Mutating(call.tool) /\ ~outcome.threw)
        => actionsOf(received) \subseteq polled

\* C29: the text of a Cloud or DNS list_* tool holds the items of every page
\* of the collection.
C29_ListsReturnAllPages ==
    (stage = "done" /\ call.tool.api = "cloud" /\ call.tool.verb = "list" /\ ~outcome.threw)
        => outcome.pages = 1 .. collection

\* ----------------------------------------- implicit properties, RobotClient
\* C31: whenever control is back in the event loop, a non-empty requestQueue
\* means activeRequests = maxConcurrent (no free slot beside a waiting task);
\* tasks enter run() in the order they were submitted, so no task starts ahead
\* of one that is pending, and every pending task was submitted after every
\* task started so far and sits in requestQueue in submission order.
C31_WorkConserving ==
    /\ requestQueue # <<>> => activeRequests = maxConcurrent
    /\ activeRequests < maxConcurrent => \A t \in Tasks : st[t] # "pending"
    /\ \A i, j \in 1 .. Len(started) : i < j => started[i] < started[j]
    /\ \A t \in Tasks : st[t] = "pending" =>
          /\ t \in Range(requestQueue)
          /\ \A u \in Range(started) : u < t
    /\ \A i, j \in 1 .. Len(requestQueue) : i < j => requestQueue[i] < requestQueue[j]
C31_Witness ==
    /\ Len(requestQueue) = 2
    /\ activeRequests = maxConcurrent
    /\ started = <<1, 2>>
    /\ st[1] = "settled"
    /\ st[2] = "sleep"
C31_WitnessAfter ==
    /\ started = <<1, 2, 3, 4>>
    /\ waited = {3, 4}
    /\ requestQueue = <<>>
    /\ activeRequests = 1

Sleeping == {t \in Tasks : st[t] = "sleep"}
C32_State ==
    /\ \A t \in Tasks : st[t] \in {"fetch", "sleep", "settled"} <=>
          (t \in Range(started) /\ settles[t] = 0)
    /\ activeRequests = Cardinality({t \in Range(started) : settles[t] = 0})
    /\ Cardinality(Sleeping) = maxConcurrent =>
          /\ activeRequests = maxConcurrent
          /\ \A t \in Tasks \ Sleeping : st[t] \in {"idle", "pending", "done"}
C32_Step ==
    /\ \A t \in Tasks :
          (st[t] = "sleep" /\ st'[t] # "sleep") => activeRequests' = activeRequests
    /\ (activeRequests' < activeRequests \/ Len(requestQueue') < Len(requestQueue))
          => \E t \in Tasks : st[t] = "settled" /\ st'[t] = "done" /\ settles'[t] = 1
    /\ Cardinality(Sleeping) = maxConcurrent => started' = started
\* C32: a request holds its slot from the entry of run() until its promise is
\* settled, its backoff sleeps included: activeRequests counts exactly the
\* started requests not yet settled, going to sleep or waking never changes
\* it, while maxConcurrent requests sleep no other request runs or starts, and
\* a slot is released or a pending request started only in the step that
\* resolves or rejects a request.
C32_SlotHeldAcrossSleeps == []C32_State /\ [][C32_Step]_vars
C32_Witness ==
    /\ Sleeping = {1, 2}
    /\ sleeps[1] = 2
    /\ requestQueue = <<3, 4>>
    /\ activeRequests = maxConcurrent

LastAttempt == maxRetries - 1
C33_State ==
    \A t \in Tasks :
        /\ (st[t] = "sleep" /\ attempt[t] = LastAttempt /\ IsRateLimit(lastOutcome[t])) =>
              /\ fnResult[t] = NoResult
              /\ sleeps[t] = maxRetries
              /\ delay[t] \in IF lastOutcome[t].retryAfter = NoHint THEN {4000, 4999}
                              ELSE {lastOutcome[t].retryAfter.num * 1000}
        /\ (st[t] = "settled" /\ IsRateLimit(lastOutcome[t])) =>
              /\ sleeps[t] = maxRetries
              /\ sends[t] = maxRetries
              /\ fnResult[t].kind = "RobotApiError"
              /\ fnResult[t].status = 0
              /\ fnResult[t].code = "NETWORK"
        /\ (st[t] = "settled" /\ rateLimited[t] = maxRetries) =>
              fnResult[t] = RobotApiError(0, "NETWORK",
                  <<"Request failed after", "3", "attempts:", "Unknown error">>, t)
C33_Step ==
    \A t \in Tasks :
        /\ (st[t] = "fetch" /\ attempt[t] = LastAttempt /\ rateLimited'[t] = rateLimited[t] + 1)
              => (st'[t] = "sleep" /\ fnResult'[t] = NoResult)
        /\ (st[t] = "sleep" /\ attempt[t] = LastAttempt /\ st'[t] # "sleep")
              => (st'[t] = "settled" /\ fnResult'[t].code = "NETWORK" /\ sends'[t] = sends[t])
\* C33: a 429 or 403 answer to the last permitted attempt (index 2) still puts
\* the request to sleep for the delay computed for that attempt, and only when
\* that sleep ends is the terminal error raised, with status 0 and code
\* NETWORK and without another send; a request rate limited on all three
\* attempts has slept three times and its message ends in 'Unknown error'.
C33_SleepsBeforeGivingUp == []C33_State /\ [][C33_Step]_vars
C33_Witness ==
    /\ st[1] = "settled"
    /\ rateLimited[1] = 3
    /\ sleeps[1] = 3
    /\ fnResult[1].message[4] = "Unknown error"
C33_WitnessAsleep ==
    /\ st[1] = "sleep"
    /\ attempt[1] = 2
    /\ lastOutcome[1].status = 403
    /\ delay[1] = 4999

\* a 2xx response with a body that response.json() cannot decode
Undecodable(o) ==
    /\ o.kind = "response"
    /\ ok(o.status)
    /\ ~isEmptyResponse(o)
    /\ ~o.body.json
Accepted(t) == methodOf(t) \in {"POST", "PUT", "DELETE"} /\ Undecodable(lastOutcome[t])
C34_State ==
    \A t \in Tasks :
        /\ sends[t] <= maxRetries
        /\ (st[t] = "sleep" /\ Undecodable(lastOutcome[t])) =>
              /\ attempt[t] < maxRetries - 1
              /\ delay[t] \in {networkDelay(attempt[t], j) : j \in Jitters}
              /\ lastError[t] = "Unexpected end of JSON input"
              /\ fnResult[t] = NoResult
        /\ (st[t] = "settled" /\ Undecodable(lastOutcome[t])) =>
              /\ sends[t] = maxRetries
              /\ fnResult[t] = exhausted("Unexpected end of JSON input", t)
C34_Step ==
    \A t \in Tasks :
        /\ (sends[t] > 0 /\ sends'[t] > sends[t]) => st[t] = "sleep"
        /\ (st[t] = "fetch" /\ st'[t] # "fetch" /\ Undecodable(lastOutcome'[t])) =>
              IF attempt[t] < maxRetries - 1
              THEN st'[t] = "sleep" /\ sleeps'[t] = sleeps[t] + 1
              ELSE st'[t] = "settled"
        /\ (st[t] = "sleep" /\ Undecodable(lastOutcome[t]) /\ st'[t] # "sleep") =>
              /\ st'[t] = "fetch"
              /\ sends'[t] = sends[t] + 1
              /\ attempt'[t] = attempt[t] + 1
\* C34: a 2xx response whose body is not JSON is treated like a network
\* failure: while an attempt remains the request, whatever its method, backs
\* off for the network delay and is then sent again, so a POST, PUT or DELETE
\* the server already accepted is sent up to three times before the terminal
\* NETWORK error; never more than three times.
C34_UndecodableSuccessIsResent == []C34_State /\ [][C34_Step]_vars
C34_Witness ==
    /\ st[1] = "settled"
    /\ Accepted(1)
    /\ sends[1] = 3
    /\ sleeps[1] = 2
    /\ fnResult[1].code = "NETWORK"
C34_WitnessResent ==
    /\ st[1] = "fetch"
    /\ methodOf(1) = "POST"
    /\ sends[1] = 2
    /\ lastError[1] = "Unexpected end of JSON input"

\* ------------------------------------- implicit properties, CloudClient
\* at least one of RateLimit-Limit, RateLimit-Remaining, RateLimit-Reset is absent
Lacks(rate) == \E h \in {rate.limit, rate.remaining, rate.reset} : ~h.present
C35_State == (responses > 0 /\ Lacks(lastHeaders)) => lastRateLimit = NoSnapshot
C35_Step ==
    /\ \A c \in Calls :
          (cst[c] = "fetch" /\ cst'[c] = "done") =>
              /\ (coutcome'[c].kind = "response" /\ Lacks(coutcome'[c].rate))
                    => (lastRateLimit' = NoSnapshot /\ responses' = responses + 1)
              /\ coutcome'[c].kind # "response"
                    => (lastRateLimit' = lastRateLimit /\ responses' = responses)
    /\ (warnedOn' # warnedOn /\ responses > 0 /\ Lacks(lastHeaders)) => warning' = NoWarning
\* C35: a response that lacks one of the three rate-limit headers leaves
\* CloudClient holding no snapshot, whatever it held before, so that
\* rateLimitWarning() called afterwards returns null; a call that ends with
\* no response (timeout, network error) leaves the held snapshot as it was.
C35_MissingHeadersClearSnapshot == []C35_State /\ [][C35_Step]_vars
C35_Witness ==
    /\ warnedOn = Snapshot(1000, 50, 7)
    /\ warning # NoWarning
    /\ responses = 2
    /\ Lacks(lastHeaders)
    /\ lastRateLimit = NoSnapshot
C35_WitnessNoResponse ==
    /\ cst[2] = "done"
    /\ coutcome[2].kind = "neterr"
    /\ responses = 1
    /\ lastRateLimit = Snapshot(1000, 50, 7)

\* the request for some page has failed
PageFailed == \E i \in 1 .. Len(served) : served[i].body.kind = "failure"
C36_State ==
    PageFailed =>
        /\ served[Len(served)].body.kind = "failure"
        /\ \A i \in 1 .. Len(served) - 1 : served[i].body.kind = "page"
        /\ pgSt = "done"
        /\ pgResult.kind = "rejected"
        /\ pgResult.error = served[Len(served)].body.error
        /\ pgResult.items = <<>>
        /\ Len(pagesRequested) = Len(served)
C36_Step ==
    /\ (~PageFailed /\ PageFailed') =>
          (pagesRequested' = pagesRequested /\ allItems' = allItems)
    /\ PageFailed => (pagesRequested' = pagesRequested /\ pgResult' = pgResult)
\* C36: requestAll is all-or-nothing: when the request for a page fails,
\* requestAll rejects with that very error, sends no request for a later
\* page, and its result carries none of the items of the pages before.
C36_AllOrNothing == []C36_State /\ [][C36_Step]_vars
C36_Witness ==
    /\ Len(served) = 3
    /\ served[3].body.kind = "failure"
    /\ Len(allItems) = 4
    /\ pgResult = Rejected(HetznerApiError(500, "unknown", <<"Internal Server Error">>))
    /\ Len(pagesRequested) = 3

\* ----------------------------------- implicit properties, pollAction
C37_State ==
    \A i \in 1 .. Len(observed) :
        observed[i].kind = "failure" =>
            /\ i = Len(observed)
            /\ plSt = "done"
            /\ plResult = PollRejected(observed[i].error)
            /\ plResult.error.code # "POLL_TIMEOUT"
            /\ Len(fetchedAt) = i
            /\ Len(plSleeps) = i - 1
C37_Step ==
    (plSt = "fetch" /\ Len(observed') > Len(observed)
        /\ observed'[Len(observed')].kind = "failure")
    => /\ plSt' = "done"
       /\ plSleeps' = plSleeps
       /\ fetchedAt' = fetchedAt
\* C37: pollAction does not absorb a failed fetch: the call rejects at once
\* with the error the fetch threw, a 429 HetznerApiError included, with no
\* further fetch and no further sleep, and the error is not turned into
\* POLL_TIMEOUT, also when most of the timeout is still left.
C37_FetchFailureRejects == []C37_State /\ [][C37_Step]_vars
C37_Witness ==
    /\ Len(observed) = 2
    /\ observed[2].kind = "failure"
    /\ plResult = PollRejected(HetznerApiError(429, "rate_limit_exceeded", <<"m1">>))
    /\ timeoutMs = MaxTimeout
    /\ Elapsed = 1000
    /\ plSleeps = <<1000>>

TimedOut == plSt = "done" /\ plResult.kind = "rejected" /\ plResult.error.code = "POLL_TIMEOUT"
C38_State ==
    /\ \A i \in 1 .. Len(fetchedAt) : fetchedAt[i] < timeoutMs
    /\ (plSt # "idle" /\ timeoutMs <= 0) =>
          (TimedOut /\ fetchedAt = <<>> /\ observed = <<>> /\ plSleeps = <<>>)
    /\ TimedOut =>
          /\ Elapsed >= timeoutMs
          /\ Len(observed) = Len(fetchedAt)
          /\ AllRunning
C38_Step ==
    /\ (~TimedOut /\ TimedOut') =>
          /\ plSt \in {"idle", "sleep"}
          /\ fetchedAt' = fetchedAt
          /\ observed' = observed
    /\ Len(fetchedAt') > Len(fetchedAt) =>
          /\ plSt \in {"idle", "sleep"}
          /\ fetchedAt'[Len(fetchedAt')] = now' - start'
\* C38: the deadline is tested only where a fetch would start: every fetch
\* starts at an elapsed time strictly below timeoutMs, and when the test fails
\* (at the call, or when a sleep ends) POLL_TIMEOUT is raised in that very step
\* without another status fetch, so whatever the action has become during the
\* last sleep goes unseen; with timeoutMs <= 0 no fetch is made at all.
C38_DeadlineTestedBeforeFetch == []C38_State /\ [][C38_Step]_vars
C38_Witness ==
    /\ TimedOut
    /\ timeoutMs = 1000
    /\ Elapsed = 1000
    /\ Len(fetchedAt) = 1
    /\ plSleeps = <<1000>>
C38_WitnessNoFetch ==
    /\ TimedOut
    /\ timeoutMs = 0
    /\ fetchedAt = <<>>

\* ------------------------------------ implicit properties, server actions
PowerOn == Tool("power_on_server", "power", "cloud", "POST", FALSE, FALSE, FALSE, "request",
                FALSE, {"action"}, "action", "initial")
\* a server-action tool has polled its action to the end and returned its text
ServerActionDone ==
    /\ stage = "done"
    /\ call.tool \in registerServerActionTools(FALSE)
    /\ polled # {}
    /\ ~outcome.threw
\* C39: when a server-action tool has polled its action and returns, the
\* action in its text is the one of the response to the initial request, with
\* the status it had there, whatever pollAction returned; the response is a
\* normal one also when pollAction returned the action with status error. Only
\* request_server_console writes no action at all.
C39_OutputShowsInitialAction ==
    ServerActionDone =>
        /\ polled = {received.action}
        /\ \E s \in FinalStatuses : finals = {Action(received.action, s)}
        /\ written = IF call.tool.name = "request_server_console" THEN {}
                     ELSE {Action(received.action, received.status)}
        /\ reply = Reply(FALSE, "result")
C39_Witness ==
    /\ ServerActionDone
    /\ call.tool = PowerOn
    /\ finals = {Action(1, "error")}
    /\ written = {Action(1, "running")}
    /\ ~reply.isError
C39_WitnessRebuild ==
    /\ ServerActionDone
    /\ call.tool.name = "rebuild_server"
    /\ finals = {Action(1, "success")}
    /\ written = {Action(1, "running")}

====
